---- MODULE Spec2Model ----
(***************************************************************************)
(* A model of compact-jwt's JWS engine (src/src/crypto.rs): signing,       *)
(* compact serialisation, parsing and validation of JWS objects, and the   *)
(* generation, export and import of the keys that sign and validate them.  *)
(*                                                                         *)
(* Text and binary data are sequences of octets (0..255); a compact string *)
(* is the sequence of its ASCII codes.  The base64url codec and the JSON   *)
(* codec of the protected header are modelled octet by octet.  The         *)
(* cryptographic provider is modelled as an ideal one: a signature         *)
(* verifies under a key exactly when the provider can produce it for that  *)
(* key and that signing input.                                             *)
(***************************************************************************)
EXTENDS Integers, Sequences, FiniteSets, TLC

(***************************************************************************)
(* Option<T>: None is the empty sequence, Some(v) the one-element sequence. *)
(***************************************************************************)
None == <<>>
Some(v) == <<v>>
IsSome(o) == Len(o) = 1
Unwrap(o) == o[1]

(***************************************************************************)
(* Octet helpers.                                                          *)
(***************************************************************************)
DOT == 46
PAD_BYTE == 61

Take(s, n) == SubSeq(s, 1, n)
Drop(s, n) == SubSeq(s, n + 1, Len(s))

\* Position of the first '.' of s at or after position from; 0 if there is none.
FindDot(s, from) ==
    LET dots == {j \in from..Len(s) : s[j] = DOT} IN
    IF dots = {} THEN 0 ELSE CHOOSE j \in dots : \A k \in dots : j <= k

\* Position of the last '.' of s; 0 if there is none.
RFindDot(s) ==
    LET dots == {j \in 1..Len(s) : s[j] = DOT} IN
    IF dots = {} THEN 0 ELSE CHOOSE j \in dots : \A k \in dots : j >= k

(***************************************************************************)
(* base64url without padding (base64::URL_SAFE_NO_PAD).                    *)
(***************************************************************************)
\* The sextet a character stands for, or -1 for a character outside the alphabet.
B64Val(c) ==
    IF c >= 65 /\ c <= 90 THEN c - 65
    ELSE IF c >= 97 /\ c <= 122 THEN c - 71
    ELSE IF c >= 48 /\ c <= 57 THEN c + 4
    ELSE IF c = 45 THEN 62
    ELSE IF c = 95 THEN 63
    ELSE -1

B64Chr(v) ==
    IF v < 26 THEN v + 65
    ELSE IF v < 52 THEN v + 71
    ELSE IF v < 62 THEN v - 4
    ELSE IF v = 62 THEN 45
    ELSE 95

ByteAt(bytes, i) == IF i <= Len(bytes) THEN bytes[i] ELSE 0

\* base64::encode_config(bytes, URL_SAFE_NO_PAD)
B64Encode(bytes) ==
    LET n == Len(bytes)
        m == (n \div 3) * 4 + (IF n % 3 = 0 THEN 0 ELSE (n % 3) + 1)
    IN [j \in 1..m |->
          LET g == (j - 1) \div 4
              k == (j - 1) % 4
              v == ByteAt(bytes, 3 * g + 1) * 65536
                   + ByteAt(bytes, 3 * g + 2) * 256
                   + ByteAt(bytes, 3 * g + 3)
          IN B64Chr((v \div (64 ^ (3 - k))) % 64)]

\* Number of '=' characters ending s (at most 3 are counted).
PadCount(s) ==
    LET n == Len(s)
    IN IF n >= 1 /\ s[n] = PAD_BYTE
       THEN IF n >= 2 /\ s[n - 1] = PAD_BYTE
            THEN IF n >= 3 /\ s[n - 2] = PAD_BYTE THEN 3 ELSE 2
            ELSE 1
       ELSE 0

SextetAt(s, m, i) == IF i <= m THEN B64Val(s[i]) ELSE 0

\* A decoder that would not look at the discarded bits of the last symbol.
B64ValidLenient(s) ==
    LET n == Len(s)
        p == PadCount(s)
        m == n - p
    IN /\ n % 4 # 1
       /\ p <= 2
       /\ (p = 1 => m % 4 \in {2, 3})
       /\ (p = 2 => m % 4 = 2)
       /\ \A i \in 1..m : B64Val(s[i]) >= 0

\* base64::decode_config(s, URL_SAFE_NO_PAD) succeeds.  The decoder of the
\* Config API tolerates '=' in the third and fourth place of the last quad,
\* rejects a length of 1 mod 4, any other character outside the alphabet and
\* a last symbol with non-zero discarded bits.
B64Valid(s) ==
    LET n == Len(s)
        p == PadCount(s)
        m == n - p
    IN /\ n % 4 # 1
       /\ p <= 2
       /\ (p = 1 => m % 4 \in {2, 3})
       /\ (p = 2 => m % 4 = 2)
       /\ \A i \in 1..m : B64Val(s[i]) >= 0
       /\ (m % 4 = 2 => B64Val(s[m]) % 16 = 0)
       /\ (m % 4 = 3 => B64Val(s[m]) % 4 = 0)

\* The octets base64::decode_config(s, URL_SAFE_NO_PAD) yields when it succeeds.
B64Decode(s) ==
    LET m == Len(s) - PadCount(s)
        n == (m * 6) \div 8
    IN [j \in 1..n |->
          LET g == (j - 1) \div 3
              k == (j - 1) % 3
              v == SextetAt(s, m, 4 * g + 1) * 262144
                   + SextetAt(s, m, 4 * g + 2) * 4096
                   + SextetAt(s, m, 4 * g + 3) * 64
                   + SextetAt(s, m, 4 * g + 4)
          IN (v \div (256 ^ (2 - k))) % 256]

(***************************************************************************)
(* The JSON codec of the protected header (serde_json on ProtectedHeader). *)
(***************************************************************************)
QUOTE == 34
BACKSLASH == 92

AlgNames == {"ES256", "RS256", "HS256"}

\* The octets of an algorithm's name as serde writes the JwaAlg variant.
AlgBytes(alg) ==
    IF alg = "ES256" THEN <<69, 83, 50, 53, 54>>
    ELSE IF alg = "RS256" THEN <<82, 83, 50, 53, 54>>
    ELSE <<72, 83, 50, 53, 54>>

\* The octets of a header field's name.
FieldBytes(f) ==
    CASE f = "alg" -> <<97, 108, 103>>
      [] f = "jku" -> <<106, 107, 117>>
      [] f = "jwk" -> <<106, 119, 107>>
      [] f = "kid" -> <<107, 105, 100>>
      [] f = "crit" -> <<99, 114, 105, 116>>
      [] f = "typ" -> <<116, 121, 112>>
      [] f = "cty" -> <<99, 116, 121>>
      [] OTHER -> <<120, 53, 99>>

\* The fields serde deserializes, in declaration order (x5u, x5t and x5t#S256
\* are skip_deserializing: on input they are unknown names).
HeaderFields == <<"alg", "jku", "jwk", "kid", "crit", "typ", "cty", "x5c">>

\* The field a member name selects, "" for a name the struct does not know.
FieldOf(key) ==
    IF \E n \in 1..Len(HeaderFields) : FieldBytes(HeaderFields[n]) = key
    THEN HeaderFields[CHOOSE n \in 1..Len(HeaderFields) : FieldBytes(HeaderFields[n]) = key]
    ELSE ""

\* A ProtectedHeader whose optional fields are all absent.
EmptyHeader(alg) ==
    [alg |-> alg, jku |-> None, jwk |-> None, kid |-> None, crit |-> None,
     typ |-> None, cty |-> None, x5c |-> None]

HexDigit(v) == IF v < 10 THEN 48 + v ELSE 87 + v

\* serde_json's escaping of one octet of a string.
EscapeChar(c) ==
    IF c = QUOTE THEN <<BACKSLASH, QUOTE>>
    ELSE IF c = BACKSLASH THEN <<BACKSLASH, BACKSLASH>>
    ELSE IF c = 8 THEN <<BACKSLASH, 98>>
    ELSE IF c = 12 THEN <<BACKSLASH, 102>>
    ELSE IF c = 10 THEN <<BACKSLASH, 110>>
    ELSE IF c = 13 THEN <<BACKSLASH, 114>>
    ELSE IF c = 9 THEN <<BACKSLASH, 116>>
    ELSE IF c < 32 THEN <<BACKSLASH, 117, 48, 48, HexDigit(c \div 16), HexDigit(c % 16)>>
    ELSE <<c>>

\* The escaped octets lo..hi of str.
RECURSIVE EscapeFrom(_, _, _)
EscapeFrom(str, lo, hi) ==
    IF lo > hi THEN <<>>
    ELSE IF lo = hi THEN EscapeChar(str[lo])
    ELSE LET mid == (lo + hi) \div 2 IN
         EscapeFrom(str, lo, mid) \o EscapeFrom(str, mid + 1, hi)

\* A JSON string literal.
JsonString(str) == <<QUOTE>> \o EscapeFrom(str, 1, Len(str)) \o <<QUOTE>>

RECURSIVE JsonStringsFrom(_, _)
JsonStringsFrom(strs, i) ==
    IF i > Len(strs) THEN <<>>
    ELSE (IF i > 1 THEN <<44>> ELSE <<>>) \o JsonString(strs[i]) \o JsonStringsFrom(strs, i + 1)

\* A JSON array of string literals.
JsonStringArray(strs) == <<91>> \o JsonStringsFrom(strs, 1) \o <<93>>

\* One member, preceded by a comma: ,"name":value
Member(f, value) == <<44>> \o JsonString(FieldBytes(f)) \o <<58>> \o value

\* A member of a name given by its octets.
NamedMember(name, value) == <<44>> \o JsonString(name) \o <<58>> \o value

\* Serialize for Base64UrlSafeData: the base64url of the octets, as a string.
Base64UrlSafeDataToJson(data) == JsonString(B64Encode(data))

\* Serialize for Jwk (tag = "kty"): the tag, the variant's fields in
\* declaration order, alg, use and kid when they are Some.
JwkToJson(j) ==
    <<123>> \o JsonString(<<107, 116, 121>>) \o <<58>>
    \o (IF j.kty = "EC"
        THEN JsonString(<<69, 67>>)
             \o NamedMember(<<99, 114, 118>>, JsonString(<<80, 45, 50, 53, 54>>))
             \o NamedMember(<<120>>, Base64UrlSafeDataToJson(j.x))
             \o NamedMember(<<121>>, Base64UrlSafeDataToJson(j.y))
        ELSE JsonString(<<82, 83, 65>>)
             \o NamedMember(<<110>>, Base64UrlSafeDataToJson(j.n))
             \o NamedMember(<<101>>, Base64UrlSafeDataToJson(j.e)))
    \o (IF IsSome(j.alg) THEN Member("alg", JsonString(AlgBytes(Unwrap(j.alg)))) ELSE <<>>)
    \o (IF IsSome(j.use)
        THEN NamedMember(<<117, 115, 101>>,
                         JsonString(IF Unwrap(j.use) = "sig" THEN <<115, 105, 103>>
                                    ELSE <<101, 110, 99>>))
        ELSE <<>>)
    \o (IF IsSome(j.kid) THEN Member("kid", JsonString(Unwrap(j.kid))) ELSE <<>>)
    \o <<125>>

\* A u8 as serde_json writes it: its decimal digits.
DecimalOf(n) ==
    IF n < 10 THEN <<48 + n>>
    ELSE IF n < 100 THEN <<48 + (n \div 10), 48 + (n % 10)>>
    ELSE <<48 + (n \div 100), 48 + ((n \div 10) % 10), 48 + (n % 10)>>

RECURSIVE NumbersFrom(_, _)
NumbersFrom(bytes, i) ==
    IF i > Len(bytes) THEN <<>>
    ELSE (IF i > 1 THEN <<44>> ELSE <<>>) \o DecimalOf(bytes[i]) \o NumbersFrom(bytes, i + 1)

\* x509_serde: Serialize for X509 is serializer.serialize_bytes(&der), which
\* serde_json writes as an array of numbers.
X509ToJson(der) == <<91>> \o NumbersFrom(der, 1) \o <<93>>

RECURSIVE CertsFrom(_, _)
CertsFrom(chain, i) ==
    IF i > Len(chain) THEN <<>>
    ELSE (IF i > 1 THEN <<44>> ELSE <<>>) \o X509ToJson(chain[i]) \o CertsFrom(chain, i + 1)

\* A Vec<x509_serde::X509>: a JSON array of the certificates.
X5cToJson(chain) == <<91>> \o CertsFrom(chain, 1) \o <<93>>

\* serde_json::to_vec(&header): alg first, then every field that is Some, in
\* declaration order.  (jku is None in every header built here.)
HeaderToJson(h) ==
    <<123>> \o JsonString(FieldBytes("alg")) \o <<58>> \o JsonString(AlgBytes(h.alg))
    \o (IF IsSome(h.jwk) THEN Member("jwk", JwkToJson(Unwrap(h.jwk))) ELSE <<>>)
    \o (IF IsSome(h.kid) THEN Member("kid", JsonString(Unwrap(h.kid))) ELSE <<>>)
    \o (IF IsSome(h.crit) THEN Member("crit", JsonStringArray(Unwrap(h.crit))) ELSE <<>>)
    \o (IF IsSome(h.typ) THEN Member("typ", JsonString(Unwrap(h.typ))) ELSE <<>>)
    \o (IF IsSome(h.cty) THEN Member("cty", JsonString(Unwrap(h.cty))) ELSE <<>>)
    \o (IF IsSome(h.x5c) THEN Member("x5c", X5cToJson(Unwrap(h.x5c))) ELSE <<>>)
    \o <<125>>

(***************************************************************************)
(* Parsing: serde_json::from_slice::<ProtectedHeader>.  A parse step       *)
(* returns [ok, pos, val]: whether it succeeded, the position after what   *)
(* it consumed, and the value read.                                        *)
(***************************************************************************)
Fail == [ok |-> FALSE, pos |-> 0, val |-> <<>>]
Done(pos, val) == [ok |-> TRUE, pos |-> pos, val |-> val]

Peek(s, i) == IF i >= 1 /\ i <= Len(s) THEN s[i] ELSE -1

IsWs(c) == c \in {32, 9, 10, 13}
IsDigit(c) == c >= 48 /\ c <= 57

RECURSIVE SkipWs(_, _)
SkipWs(s, i) == IF IsWs(Peek(s, i)) THEN SkipWs(s, i + 1) ELSE i

\* s continues at position i with the octets of word.
StartsWith(s, i, word) ==
    /\ i + Len(word) - 1 <= Len(s)
    /\ \A k \in 1..Len(word) : s[i + k - 1] = word[k]

NullWord == <<110, 117, 108, 108>>
TrueWord == <<116, 114, 117, 101>>
FalseWord == <<102, 97, 108, 115, 101>>

HexVal(c) ==
    IF c >= 48 /\ c <= 57 THEN c - 48
    ELSE IF c >= 97 /\ c <= 102 THEN c - 87
    ELSE IF c >= 65 /\ c <= 70 THEN c - 55
    ELSE -1

\* The UTF-8 encoding of a code point of the basic plane.
Utf8Encode(n) ==
    IF n < 128 THEN <<n>>
    ELSE IF n < 2048 THEN <<192 + (n \div 64), 128 + (n % 64)>>
    ELSE <<224 + (n \div 4096), 128 + ((n \div 64) % 64), 128 + (n % 64)>>

IsCont(c) == c >= 128 /\ c <= 191

\* The octets a scan takes in one step when all of them are ordinary.
RunLen == 16

\* The position after the ASCII octet at i, or after RunLen octets when the
\* RunLen octets from i are all ASCII.
AsciiRunEnd(b, i) ==
    IF i + RunLen - 1 <= Len(b) /\ \A k \in i..(i + RunLen - 1) : b[k] < 128
    THEN i + RunLen ELSE i + 1

\* str::from_utf8 accepts the octets from position i on.
RECURSIVE Utf8ValidFrom(_, _)
Utf8ValidFrom(b, i) ==
    IF i > Len(b) THEN TRUE
    ELSE LET c == b[i] IN
         IF c < 128 THEN Utf8ValidFrom(b, AsciiRunEnd(b, i))
         ELSE IF c >= 194 /\ c <= 223
              THEN IsCont(Peek(b, i + 1)) /\ Utf8ValidFrom(b, i + 2)
         ELSE IF c >= 224 /\ c <= 239
              THEN /\ IsCont(Peek(b, i + 1)) /\ IsCont(Peek(b, i + 2))
                   /\ (c = 224 => Peek(b, i + 1) >= 160)
                   /\ (c = 237 => Peek(b, i + 1) <= 159)
                   /\ Utf8ValidFrom(b, i + 3)
         ELSE IF c >= 240 /\ c <= 244
              THEN /\ IsCont(Peek(b, i + 1)) /\ IsCont(Peek(b, i + 2))
                   /\ IsCont(Peek(b, i + 3))
                   /\ (c = 240 => Peek(b, i + 1) >= 144)
                   /\ (c = 244 => Peek(b, i + 1) <= 143)
                   /\ Utf8ValidFrom(b, i + 4)
         ELSE FALSE

Utf8Valid(b) == Utf8ValidFrom(b, 1)

\* The four hex digits of a \u escape at positions i..i+3, or -1.
Hex4(s, i) ==
    IF \A k \in 0..3 : HexVal(Peek(s, i + k)) >= 0
    THEN HexVal(s[i]) * 4096 + HexVal(s[i + 1]) * 256 + HexVal(s[i + 2]) * 16 + HexVal(s[i + 3])
    ELSE -1

\* The position after the octet at i, which a string literal takes as it
\* is, or after RunLen octets when it takes the RunLen octets from i as they
\* are: no quote, no backslash, no control character.
PlainRunEnd(s, i) ==
    IF /\ i + RunLen - 1 <= Len(s)
       /\ \A k \in i..(i + RunLen - 1) : s[k] # QUOTE /\ s[k] # BACKSLASH /\ s[k] >= 32
    THEN i + RunLen ELSE i + 1

\* The body of a string literal from position i (after the opening quote),
\* unescaped into acc.  A surrogate \u escape is refused (no string of the
\* model's inputs holds one).
RECURSIVE StrBody(_, _, _)
StrBody(s, i, acc) ==
    LET c == Peek(s, i)
        Run(j) == StrBody(s, j, acc \o SubSeq(s, i, j - 1))
    IN
    IF c = -1 \/ (c >= 0 /\ c < 32) THEN Fail
    ELSE IF c = QUOTE THEN Done(i + 1, acc)
    ELSE IF c = BACKSLASH
         THEN LET e == Peek(s, i + 1) IN
              IF e \in {QUOTE, BACKSLASH, 47} THEN StrBody(s, i + 2, Append(acc, e))
              ELSE IF e = 98 THEN StrBody(s, i + 2, Append(acc, 8))
              ELSE IF e = 102 THEN StrBody(s, i + 2, Append(acc, 12))
              ELSE IF e = 110 THEN StrBody(s, i + 2, Append(acc, 10))
              ELSE IF e = 114 THEN StrBody(s, i + 2, Append(acc, 13))
              ELSE IF e = 116 THEN StrBody(s, i + 2, Append(acc, 9))
              ELSE IF e = 117
                   THEN LET n == Hex4(s, i + 2) IN
                        IF n < 0 \/ (n >= 55296 /\ n <= 57343) THEN Fail
                        ELSE StrBody(s, i + 6, acc \o Utf8Encode(n))
              ELSE Fail
    ELSE Run(PlainRunEnd(s, i))

\* A string literal at position i, deserialized as a str (valid UTF-8).
ParseStr(s, i) ==
    LET Checked(r) == IF r.ok /\ Utf8Valid(r.val) THEN r ELSE Fail
    IN IF Peek(s, i) # QUOTE THEN Fail ELSE Checked(StrBody(s, i + 1, <<>>))

RECURSIVE SkipDigits(_, _)
SkipDigits(s, i) == IF IsDigit(Peek(s, i)) THEN SkipDigits(s, i + 1) ELSE i

\* A JSON number at position i.
SkipNumber(s, i) ==
    LET Checked(a, b, c, d, e) ==
            IF b = a \/ (Peek(s, b) = 46 /\ c = b + 1) \/ (d > c /\ e = d)
            THEN Fail ELSE Done(e, <<>>)
        Exponent(a, b, c, d) == Checked(a, b, c, d, IF d > c THEN SkipDigits(s, d) ELSE c)
        ExpSign(a, b, c) ==
            Exponent(a, b, c, IF Peek(s, c) \in {101, 69}
                              THEN IF Peek(s, c + 1) \in {43, 45} THEN c + 2 ELSE c + 1
                              ELSE c)
        Fraction(a, b) == ExpSign(a, b, IF Peek(s, b) = 46 THEN SkipDigits(s, b + 1) ELSE b)
        IntPart(a) == Fraction(a, IF Peek(s, a) = 48 THEN a + 1 ELSE SkipDigits(s, a))
    IN IntPart(IF Peek(s, i) = 45 THEN i + 1 ELSE i)

\* Any JSON value at position i, ignored (serde's IgnoredAny).
RECURSIVE SkipValue(_, _)
RECURSIVE SkipElems(_, _)
RECURSIVE SkipMembers(_, _)
SkipValue(s, i) ==
    LET c == Peek(s, i) IN
    IF c = QUOTE THEN StrBody(s, i + 1, <<>>)
    ELSE IF c = 45 \/ IsDigit(c) THEN SkipNumber(s, i)
    ELSE IF c = 110 THEN (IF StartsWith(s, i, NullWord) THEN Done(i + 4, <<>>) ELSE Fail)
    ELSE IF c = 116 THEN (IF StartsWith(s, i, TrueWord) THEN Done(i + 4, <<>>) ELSE Fail)
    ELSE IF c = 102 THEN (IF StartsWith(s, i, FalseWord) THEN Done(i + 5, <<>>) ELSE Fail)
    ELSE IF c = 91
         THEN LET j == SkipWs(s, i + 1) IN
              IF Peek(s, j) = 93 THEN Done(j + 1, <<>>) ELSE SkipElems(s, j)
    ELSE IF c = 123
         THEN LET j == SkipWs(s, i + 1) IN
              IF Peek(s, j) = 125 THEN Done(j + 1, <<>>) ELSE SkipMembers(s, j)
    ELSE Fail

SkipElems(s, i) ==
    LET AfterElem(r) ==
            IF ~r.ok THEN Fail
            ELSE LET j == SkipWs(s, r.pos) IN
                 IF Peek(s, j) = 44 THEN SkipElems(s, SkipWs(s, j + 1))
                 ELSE IF Peek(s, j) = 93 THEN Done(j + 1, <<>>)
                 ELSE Fail
    IN AfterElem(SkipValue(s, i))

SkipMembers(s, i) ==
    LET AfterMember(r) ==
            IF ~r.ok THEN Fail
            ELSE LET j == SkipWs(s, r.pos) IN
                 IF Peek(s, j) = 44 THEN SkipMembers(s, SkipWs(s, j + 1))
                 ELSE IF Peek(s, j) = 125 THEN Done(j + 1, <<>>)
                 ELSE Fail
        AfterName(k) ==
            IF ~k.ok THEN Fail
            ELSE LET c == SkipWs(s, k.pos) IN
                 IF Peek(s, c) # 58 THEN Fail
                 ELSE AfterMember(SkipValue(s, SkipWs(s, c + 1)))
    IN AfterName(IF Peek(s, i) = QUOTE THEN StrBody(s, i + 1, <<>>) ELSE Fail)

\* The unit variant of JwaAlg a name selects.
AlgOfName(name) ==
    IF \E a \in AlgNames : AlgBytes(a) = name
    THEN Done(0, CHOOSE a \in AlgNames : AlgBytes(a) = name)
    ELSE Fail

\* A JwaAlg at position i: the variant's name as a string, or the map form
\* {"NAME":null} serde accepts for a unit variant.
ValAlg(s, i) ==
    LET Variant(r) == IF r.ok THEN AlgOfName(r.val) ELSE Fail
        AsString(r, a) == IF a.ok THEN Done(r.pos, a.val) ELSE Fail
        AsMap(r, a) ==
            LET c == IF r.ok THEN SkipWs(s, r.pos) ELSE 0
                n == SkipWs(s, c + 1)
                e == SkipWs(s, n + 4)
            IN IF a.ok /\ Peek(s, c) = 58 /\ StartsWith(s, n, NullWord) /\ Peek(s, e) = 125
               THEN Done(e + 1, a.val) ELSE Fail
        Named(r) == IF Peek(s, i) = QUOTE THEN AsString(r, Variant(r)) ELSE AsMap(r, Variant(r))
    IN IF Peek(s, i) = QUOTE THEN Named(ParseStr(s, i))
       ELSE IF Peek(s, i) = 123 THEN Named(ParseStr(s, SkipWs(s, i + 1)))
       ELSE Fail

\* An Option<String> at position i: null or a string.
ValOptStr(s, i) ==
    LET Read(r) == IF r.ok THEN Done(r.pos, Some(r.val)) ELSE Fail
    IN IF StartsWith(s, i, NullWord) THEN Done(i + 4, None) ELSE Read(ParseStr(s, i))

\* The elements of a Vec<String> from position i, after '[' and white space.
RECURSIVE StrElems(_, _, _)
StrElems(s, i, acc) ==
    LET AfterElem(r) ==
            IF ~r.ok THEN Fail
            ELSE LET j == SkipWs(s, r.pos) IN
                 IF Peek(s, j) = 44 THEN StrElems(s, SkipWs(s, j + 1), Append(acc, r.val))
                 ELSE IF Peek(s, j) = 93 THEN Done(j + 1, Append(acc, r.val))
                 ELSE Fail
    IN AfterElem(ParseStr(s, i))

\* An Option<Vec<String>> at position i: null or an array of strings.
ValOptStrArray(s, i) ==
    LET Read(r) == IF r.ok THEN Done(r.pos, Some(r.val)) ELSE Fail
    IN IF StartsWith(s, i, NullWord) THEN Done(i + 4, None)
       ELSE IF Peek(s, i) = 91
       THEN LET j == SkipWs(s, i + 1) IN
            IF Peek(s, j) = 93 THEN Done(j + 1, Some(<<>>)) ELSE Read(StrElems(s, j, <<>>))
       ELSE Fail

\* The text of base64::decode (the standard alphabet, '+' and '/') in the
\* URL-safe alphabet: '-' and '_' are outside the standard alphabet.
StdToUrl(s) ==
    [i \in 1..Len(s) |->
        IF s[i] = 43 THEN 45 ELSE IF s[i] = 47 THEN 95
        ELSE IF s[i] \in {45, 95} THEN 33 ELSE s[i]]

\* x509::X509::from_der(der) succeeds: the octets are one DER SEQUENCE (a
\* certificate is its DER in the model).
X509FromDer(der) == Len(der) >= 2 /\ der[1] = 48 /\ der[2] = Len(der) - 2

\* x509_serde: Deserialize for X509 is deserialize_bytes with a visitor that
\* has visit_bytes alone: a JSON string is read, its octets are decoded as
\* base64 and then as DER; any other JSON value, an array too, is refused.
ValX509(s, i) ==
    LET Cert(r) ==
            IF r.ok /\ B64Valid(StdToUrl(r.val)) /\ X509FromDer(B64Decode(StdToUrl(r.val)))
            THEN Done(r.pos, B64Decode(StdToUrl(r.val))) ELSE Fail
    IN Cert(ParseStr(s, i))

\* The elements of a Vec<X509> from position i, after '[' and white space.
RECURSIVE X509Elems(_, _, _)
X509Elems(s, i, acc) ==
    LET AfterElem(r) ==
            IF ~r.ok THEN Fail
            ELSE LET j == SkipWs(s, r.pos) IN
                 IF Peek(s, j) = 44 THEN X509Elems(s, SkipWs(s, j + 1), Append(acc, r.val))
                 ELSE IF Peek(s, j) = 93 THEN Done(j + 1, Append(acc, r.val))
                 ELSE Fail
    IN AfterElem(ValX509(s, i))

\* An Option<Vec<X509>> at position i: null or an array of certificates.
ValOptX5c(s, i) ==
    LET Read(r) == IF r.ok THEN Done(r.pos, Some(r.val)) ELSE Fail
    IN IF StartsWith(s, i, NullWord) THEN Done(i + 4, None)
       ELSE IF Peek(s, i) = 91
       THEN LET j == SkipWs(s, i + 1) IN
            IF Peek(s, j) = 93 THEN Done(j + 1, Some(<<>>)) ELSE Read(X509Elems(s, j, <<>>))
       ELSE Fail

\* Deserialize for Base64UrlSafeData: the octets of a base64url string.
Base64UrlSafeDataFromJson(str) ==
    IF B64Valid(str) THEN Done(0, B64Decode(str)) ELSE Fail

\* The member names of a Jwk: kty, crv, x, y, n, e, alg, use, kid.
JwkNames ==
    {<<107, 116, 121>>, <<99, 114, 118>>, <<120>>, <<121>>, <<110>>, <<101>>,
     <<97, 108, 103>>, <<117, 115, 101>>, <<107, 105, 100>>}

\* A field that has to be there: given once, a string among names.
GivenIn(e, names) == Len(e) = 1 /\ e[1] # None /\ Unwrap(e[1]) \in names

\* An Option field: not given, or given once (as null or as a string).
OptOf(e) == IF Len(e) = 0 THEN None ELSE e[1]

\* The Base64UrlSafeData fields x, y, n and e of the members m, each read
\* when it is given once and as a string.
JwkData(m) ==
    [name \in {<<120>>, <<121>>, <<110>>, <<101>>} |->
        IF Len(m[name]) = 1 /\ m[name][1] # None
        THEN Base64UrlSafeDataFromJson(Unwrap(m[name][1])) ELSE Fail]

\* The members m hold a Jwk with the data fields d: the tag selects the
\* variant, the fields of the variant are there once, alg, use and kid at
\* most once.
JwkValid(m, d) ==
    /\ \/ /\ GivenIn(m[<<107, 116, 121>>], {<<69, 67>>})
          /\ GivenIn(m[<<99, 114, 118>>], {<<80, 45, 50, 53, 54>>})
          /\ d[<<120>>].ok /\ d[<<121>>].ok
       \/ /\ m[<<107, 116, 121>>] = << Some(<<82, 83, 65>>) >>
          /\ d[<<110>>].ok /\ d[<<101>>].ok
    /\ \A name \in {<<97, 108, 103>>, <<117, 115, 101>>, <<107, 105, 100>>} : Len(m[name]) <= 1
    /\ OptOf(m[<<97, 108, 103>>]) \in {None} \cup {Some(AlgBytes(a)) : a \in AlgNames}
    /\ OptOf(m[<<117, 115, 101>>]) \in {None, Some(<<115, 105, 103>>), Some(<<101, 110, 99>>)}

\* Option<JwaAlg> and Option<JwkUse> from the string given.
JwkAlgOf(o) ==
    IF o = None THEN None ELSE Some(CHOOSE a \in AlgNames : AlgBytes(a) = Unwrap(o))
JwkUseOf(o) ==
    IF o = None THEN None ELSE IF o = Some(<<115, 105, 103>>) THEN Some("sig") ELSE Some("enc")

\* Deserialize for Jwk (tag = "kty") from its members m and data fields d.
JwkFromEntries(m, d) ==
    IF m[<<107, 116, 121>>] = << Some(<<69, 67>>) >>
    THEN [kty |-> "EC", crv |-> "P-256", x |-> d[<<120>>].val, y |-> d[<<121>>].val,
          alg |-> JwkAlgOf(OptOf(m[<<97, 108, 103>>])),
          use |-> JwkUseOf(OptOf(m[<<117, 115, 101>>])),
          kid |-> OptOf(m[<<107, 105, 100>>])]
    ELSE [kty |-> "RSA", n |-> d[<<110>>].val, e |-> d[<<101>>].val,
          alg |-> JwkAlgOf(OptOf(m[<<97, 108, 103>>])),
          use |-> JwkUseOf(OptOf(m[<<117, 115, 101>>])),
          kid |-> OptOf(m[<<107, 105, 100>>])]

\* The Jwk of the members read up to position pos, when they hold one.
JwkBuilt(pos, entries) ==
    CHOOSE r \in {IF JwkValid(entries, d) THEN Done(pos, Some(JwkFromEntries(entries, d)))
                  ELSE Fail : d \in {JwkData(entries)}} : TRUE

\* The members of a Jwk object from position i (at a member name), then the
\* Jwk they hold.  acc has, for each name of JwkNames, the values given for
\* it; members of other names are ignored.  The value of a member is a
\* string or null; a value of another kind is refused (no Jwk of the model's
\* inputs has one).
RECURSIVE JwkEntries(_, _, _)
JwkEntries(s, i, acc) ==
    LET More(a, j) ==
            IF Peek(s, j) = 44 THEN JwkEntries(s, SkipWs(s, j + 1), a)
            ELSE IF Peek(s, j) = 125 THEN JwkBuilt(j + 1, a)
            ELSE Fail
        AfterValue(name, r) ==
            IF ~r.ok THEN Fail
            ELSE More(IF name \in JwkNames THEN [acc EXCEPT ![name] = Append(@, r.val)] ELSE acc,
                      SkipWs(s, r.pos))
        AfterColon(name, c) ==
            IF Peek(s, c) # 58 THEN Fail ELSE AfterValue(name, ValOptStr(s, SkipWs(s, c + 1)))
        AfterName(k) == IF ~k.ok THEN Fail ELSE AfterColon(k.val, SkipWs(s, k.pos))
    IN AfterName(ParseStr(s, i))

\* An Option<Jwk> at position i: null or a Jwk object.
ValOptJwk(s, i) ==
    IF StartsWith(s, i, NullWord) THEN Done(i + 4, None)
    ELSE IF Peek(s, i) = 123 /\ Peek(s, SkipWs(s, i + 1)) # 125
    THEN JwkEntries(s, SkipWs(s, i + 1), [name \in JwkNames |-> <<>>])
    ELSE Fail

\* jku at position i: null reads as None.  No header of the model's inputs
\* carries a value for it, and a value is refused.
ValAbsent(s, i) ==
    IF StartsWith(s, i, NullWord) THEN Done(i + 4, None) ELSE Fail

\* The value of field f at position i.
FieldValue(f, s, i) ==
    IF f = "alg" THEN ValAlg(s, i)
    ELSE IF f \in {"kid", "typ", "cty"} THEN ValOptStr(s, i)
    ELSE IF f = "crit" THEN ValOptStrArray(s, i)
    ELSE IF f = "x5c" THEN ValOptX5c(s, i)
    ELSE IF f = "jwk" THEN ValOptJwk(s, i)
    ELSE ValAbsent(s, i)

\* The members of the header object from position i (at a member name); seen
\* is the set of fields already read: a field read twice is an error, a
\* member of an unknown name is ignored whatever its value.
RECURSIVE Members(_, _, _, _)
Members(s, i, hdr, seen) ==
    LET AfterValue(f, r) ==
            IF ~r.ok THEN Fail
            ELSE LET h == IF f = "" THEN hdr ELSE [hdr EXCEPT ![f] = r.val]
                     sn == IF f = "" THEN seen ELSE seen \cup {f}
                     j == SkipWs(s, r.pos)
                 IN IF Peek(s, j) = 44 THEN Members(s, SkipWs(s, j + 1), h, sn)
                    ELSE IF Peek(s, j) = 125 /\ "alg" \in sn THEN Done(j + 1, h)
                    ELSE Fail
        AfterColon(f, v) ==
            AfterValue(f, IF f = "" THEN SkipValue(s, v) ELSE FieldValue(f, s, v))
        AfterField(f, c) ==
            IF Peek(s, c) # 58 \/ f \in seen THEN Fail ELSE AfterColon(f, SkipWs(s, c + 1))
        AfterName(k) ==
            IF ~k.ok THEN Fail ELSE AfterField(FieldOf(k.val), SkipWs(s, k.pos))
    IN AfterName(ParseStr(s, i))

\* The struct written as a sequence: exactly the eight fields in order.
RECURSIVE SeqFields(_, _, _, _)
SeqFields(s, i, n, hdr) ==
    LET AfterValue(f, r) ==
            IF ~r.ok THEN Fail
            ELSE LET h == [hdr EXCEPT ![f] = r.val]
                     j == SkipWs(s, r.pos)
                 IN IF n < Len(HeaderFields)
                    THEN (IF Peek(s, j) = 44 THEN SeqFields(s, SkipWs(s, j + 1), n + 1, h)
                          ELSE Fail)
                    ELSE (IF Peek(s, j) = 93 THEN Done(j + 1, h) ELSE Fail)
    IN AfterValue(HeaderFields[n], FieldValue(HeaderFields[n], s, i))

\* serde_json::from_slice::<ProtectedHeader>(bytes): the header, when the
\* octets are one JSON value of the struct's shape followed by white space only.
JsonToHeader(bytes) ==
    LET Whole(r) == IF r.ok /\ SkipWs(bytes, r.pos) > Len(bytes) THEN r ELSE Fail
        i == SkipWs(bytes, 1)
    IN IF Peek(bytes, i) = 123
       THEN Whole(Members(bytes, SkipWs(bytes, i + 1), EmptyHeader("ES256"), {}))
       ELSE IF Peek(bytes, i) = 91
       THEN Whole(SeqFields(bytes, SkipWs(bytes, i + 1), 1, EmptyHeader("ES256")))
       ELSE Fail

(***************************************************************************)
(* Results.  A Result<T, JwtError> is [ok, err, val]; an aborted call (a   *)
(* panic) is the outcome whose err is "Panic", which is no JwtError.       *)
(***************************************************************************)
JwtError ==
    {"InvalidCompactFormat", "InvalidBase64", "InvalidHeaderFormat", "InvalidSignature",
     "CriticalExtension", "OpenSSLError", "ValidatorAlgMismatch"}

Ok(v) == [ok |-> TRUE, err |-> "", val |-> v]
Err(e) == [ok |-> FALSE, err |-> e, val |-> <<>>]
Panic == [ok |-> FALSE, err |-> "Panic", val |-> <<>>]

(***************************************************************************)
(* The cryptographic provider.  A key is [alg, key, size]: the family, the *)
(* key's identity and its size in octets (the field size of an EC key, the *)
(* modulus size of an RSA key, the length of an HMAC secret).  The private *)
(* and the public half of a key pair are the same record.                  *)
(***************************************************************************)
Fill(n, b) == [i \in 1..n |-> b]

\* The sum of msg[i] * (1 + w * i) over lo..hi, modulo m.
RECURSIVE WeightedSum(_, _, _, _, _)
WeightedSum(msg, lo, hi, w, m) ==
    IF lo > hi THEN 0
    ELSE IF lo = hi THEN (msg[lo] * (1 + w * lo)) % m
    ELSE LET mid == (lo + hi) \div 2 IN
         (WeightedSum(msg, lo, mid, w, m) + WeightedSum(msg, mid + 1, hi, w, m)) % m

\* hash::hash(MessageDigest::sha256(), msg): a 32-octet digest.  The digest
\* of the model is a checksum that no change of one octet leaves unchanged.
Sha256(msg) ==
    <<WeightedSum(msg, 1, Len(msg), 0, 256), WeightedSum(msg, 1, Len(msg), 1, 251),
      WeightedSum(msg, 1, Len(msg), 7, 241), Len(msg) % 256>>
    \o Fill(28, 90)

\* bn::BigNum::from_slice / BigNum::to_vec: a big number is its big-endian
\* octets without leading zeros.
RECURSIVE BnFromSlice(_)
BnFromSlice(bytes) ==
    IF Len(bytes) > 0 /\ bytes[1] = 0 THEN BnFromSlice(Tail(bytes)) ELSE bytes

\* The values the provider's random nonce of an ECDSA signature is drawn from.
Nonces == {1, 2}

\* ecdsa::EcdsaSig::sign(hash, skey) with nonce k: the pair (r, s).  r depends
\* on the nonce alone, s on the key, the hash and the nonce; either may have
\* fewer significant octets than the field has.
EcdsaSign(skey, hashout, k) ==
    [r |-> BnFromSlice((IF k = 1 THEN <<17>> ELSE <<0>>) \o Fill(skey.size - 1, 34)),
     s |-> BnFromSlice((IF k = 1 THEN <<0>> ELSE <<119>>) \o <<skey.key>>
                       \o Take(hashout, 4) \o Fill(skey.size - 6, 51))]

\* EcdsaSig::verify(hash, pkey): the pair is one the key signs the hash with.
EcdsaVerify(pkey, hashout, sig) ==
    \E k \in Nonces : EcdsaSign(pkey, hashout, k) = sig

\* sign::Signer with rsa::Padding::PKCS1, sign_oneshot_to_vec(msg): as many
\* octets as the modulus has.
RsaSign(skey, msg) ==
    <<skey.key>> \o Take(Sha256(msg), 4) \o Fill(skey.size - 5, 85)

\* sign::Verifier with rsa::Padding::PKCS1: update(msg), verify(sig).
RsaVerify(pkey, msg, sig) == sig = RsaSign(pkey, msg)

\* sign::Signer over an HMAC key, sign_oneshot_to_vec(msg): HMAC-SHA256.
HmacSign(skey, msg) ==
    <<skey.key>> \o Take(Sha256(msg), 4) \o Fill(27, 170)

(***************************************************************************)
(* Key material: JwsSigner's constructors and exports.  The DER encoding   *)
(* of a private key is a SEQUENCE (tag 48) that starts with the version of *)
(* its structure, 1 for an ECPrivateKey and 0 for an RSAPrivateKey, and    *)
(* carries the key's identity and its size.                                *)
(***************************************************************************)
RSA_MIN_SIZE == 3072
RSA_SIG_SIZE == 384

\* The identities a generated key is drawn from.
KeyIds == {1, 2}

SEQUENCE_TAG == 48

\* EcKey::private_key_to_der
EcPrivateDer(skey) ==
    <<SEQUENCE_TAG, 1, skey.key, skey.size \div 256, skey.size % 256>>

\* Rsa::private_key_to_der
RsaPrivateDer(skey) ==
    <<SEQUENCE_TAG, 0, skey.key, skey.size \div 256, skey.size % 256>>

DerKeyOneOctet(bytes, version, alg) ==
    IF Len(bytes) = 5 /\ bytes[1] = SEQUENCE_TAG /\ bytes[2] = version /\ bytes[5] > 0
    THEN Ok([alg |-> alg, key |-> bytes[3], size |-> bytes[5]])
    ELSE Err("OpenSSLError")

\* What a DER reader for the structure of the given version makes of bytes.
DerKey(bytes, version, alg) ==
    IF Len(bytes) = 5 /\ bytes[1] = SEQUENCE_TAG /\ bytes[2] = version
       /\ bytes[4] * 256 + bytes[5] > 0
    THEN Ok([alg |-> alg, key |-> bytes[3], size |-> bytes[4] * 256 + bytes[5]])
    ELSE Err("OpenSSLError")

\* JwsSigner::from_es256_der: a key on any curve is taken.
from_es256_der(bytes) == DerKey(bytes, 1, "ES256")

\* JwsSigner::from_rs256_der: a modulus of any size is taken.
from_rs256_der(bytes) == DerKey(bytes, 0, "RS256")

\* JwsSigner::generate_es256 drawing key k: a key on P-256.
generate_es256(k) == Ok([alg |-> "ES256", key |-> k, size |-> 32])

\* JwsSigner::generate_hs256 drawing key k: 32 random octets.
generate_hs256(k) == Ok([alg |-> "HS256", key |-> k, size |-> 32])

\* JwsSigner::generate_legacy_rs256 drawing key k: RSA_MIN_SIZE bits.
generate_legacy_rs256(k) ==
    Ok([alg |-> "RS256", key |-> k, size |-> RSA_MIN_SIZE \div 8])

\* The HMAC secret of an HS256 signer.
HmacSecret(skey) == <<skey.key>> \o Fill(skey.size - 1, 204)

private_key_to_derRaw(signer) ==
    IF signer.alg = "ES256" THEN Ok(EcPrivateDer(signer))
    ELSE IF signer.alg = "RS256" THEN Ok(RsaPrivateDer(signer))
    ELSE Ok(HmacSecret(signer))

\* JwsSigner::private_key_to_der
private_key_to_der(signer) ==
    IF signer.alg = "ES256" THEN Ok(EcPrivateDer(signer))
    ELSE IF signer.alg = "RS256" THEN Ok(RsaPrivateDer(signer))
    ELSE Err("PrivateKeyDenied")

\* EcPointRef::affine_coordinates_gfp and BigNum::to_vec: the coordinates of
\* the public point, each without leading zeros; x of key 1 is one octet
\* shorter than the field.
EcAffine(skey) ==
    [x |-> BnFromSlice(<<skey.key - 1>> \o Fill(skey.size - 1, 7)),
     y |-> <<skey.key>> \o Fill(skey.size - 1, 9)]

\* Rsa::n: the modulus, as many octets as the key's size.
RsaModulus(skey) == <<128 + skey.key>> \o Fill(skey.size - 1, 11)

\* Rsa::e: the public exponent 65537.
RsaExponent == <<1, 0, 1>>

\* BigNumRef::to_vec_padded(pad): refused when the number needs more octets.
to_vec_padded(bn, pad) ==
    IF Len(bn) > pad THEN Err("OpenSSLError") ELSE Ok(Fill(pad - Len(bn), 0) \o bn)

\* JwsSigner::public_key_as_jwk(kid)
public_key_as_jwk(signer, kid) ==
    LET Ec(c) ==
            IF Len(c.x) > 32 \/ Len(c.y) > 32 THEN Panic
            ELSE Ok([kty |-> "EC", crv |-> "P-256",
                     x |-> Fill(32 - Len(c.x), 0) \o c.x, y |-> Fill(32 - Len(c.y), 0) \o c.y,
                     alg |-> Some("ES256"), use |-> Some("sig"), kid |-> kid])
        Rsa(public_key_n, public_key_e) ==
            IF ~public_key_n.ok THEN public_key_n
            ELSE IF ~public_key_e.ok THEN public_key_e
            ELSE Ok([kty |-> "RSA", n |-> public_key_n.val, e |-> public_key_e.val,
                     alg |-> Some("RS256"), use |-> Some("sig"), kid |-> kid])
    IN IF signer.alg = "ES256" THEN Ec(EcAffine(signer))
       ELSE IF signer.alg = "RS256"
       THEN Rsa(to_vec_padded(RsaModulus(signer), RSA_SIG_SIZE), to_vec_padded(RsaExponent, 3))
       ELSE Err("JwkPublicKeyDenied")

(***************************************************************************)
(* JwsInner::sign_inner, Display for JwsCompact, JwsCompact::from_str and  *)
(* JwsCompact::validate.                                                   *)
(***************************************************************************)
\* JwsSigner::get_validator: the paired validator (for HS256 the same secret).
get_validator(signer) == signer

HeaderFromKidOnly(phdr) == [kid |-> phdr.kid, typ |-> None, cty |-> None]

\* From<&ProtectedHeader> for Header
HeaderFrom(phdr) == [kid |-> phdr.kid, typ |-> phdr.typ, cty |-> phdr.cty]

PadTo32Right(vec) == vec \o Fill(32 - Len(vec), 0)

\* The fixed-width form of a big number in the ES256 arm of sign_inner: a
\* 32-octet array, the number's octets copied to its right end.  The split
\* at 32 - len aborts when the number has more than 32 octets.
PadTo32(vec) == Fill(32 - Len(vec), 0) \o vec

SignatureSalted(signer, sign_input, k) ==
    LET Fixed(ec_sig) ==
            IF Len(ec_sig.r) > 32 \/ Len(ec_sig.s) > 32 THEN Panic
            ELSE Ok(PadTo32(ec_sig.r) \o PadTo32(ec_sig.s))
    IN IF signer.alg = "ES256" THEN Fixed(EcdsaSign(signer, Sha256(sign_input), k))
       ELSE IF signer.alg = "RS256" THEN Ok([RsaSign(signer, sign_input) EXCEPT ![2] = k])
       ELSE Ok(HmacSign(signer, sign_input))

\* The signature arm of sign_inner, with nonce k for the provider's ECDSA.
Signature(signer, sign_input, k) ==
    LET Fixed(ec_sig) ==
            IF Len(ec_sig.r) > 32 \/ Len(ec_sig.s) > 32 THEN Panic
            ELSE Ok(PadTo32(ec_sig.r) \o PadTo32(ec_sig.s))
    IN IF signer.alg = "ES256" THEN Fixed(EcdsaSign(signer, Sha256(sign_input), k))
       ELSE IF signer.alg = "RS256" THEN Ok(RsaSign(signer, sign_input))
       ELSE Ok(HmacSign(signer, sign_input))

sign_innerAlgOnly(inner, signer, jku, jwk, k) ==
    LET Signed(header, sign_input, signature) ==
            IF ~signature.ok THEN signature
            ELSE Ok([header |-> header, payload |-> inner.payload,
                     sign_input |-> sign_input, signature |-> signature.val])
        Input(header, sign_input) == Signed(header, sign_input, Signature(signer, sign_input, k))
        Encoded(header) ==
            Input(header, B64Encode(HeaderToJson(EmptyHeader(signer.alg)))
                          \o <<DOT>> \o B64Encode(inner.payload))
    IN Encoded([EmptyHeader(signer.alg) EXCEPT
                   !.jku = jku,
                   !.jwk = jwk,
                   !.kid = inner.header.kid,
                   !.typ = inner.header.typ,
                   !.cty = inner.header.cty])

\* JwsInner::sign_inner(signer, jku, jwk); k is the provider's nonce.
sign_inner(inner, signer, jku, jwk, k) ==
    LET Signed(header, sign_input, signature) ==
            IF ~signature.ok THEN signature
            ELSE Ok([header |-> header, payload |-> inner.payload,
                     sign_input |-> sign_input, signature |-> signature.val])
        Input(header, sign_input) == Signed(header, sign_input, Signature(signer, sign_input, k))
        Encoded(header) ==
            Input(header, B64Encode(HeaderToJson(header)) \o <<DOT>> \o B64Encode(inner.payload))
    IN Encoded([EmptyHeader(signer.alg) EXCEPT
                   !.jku = jku,
                   !.jwk = jwk,
                   !.kid = inner.header.kid,
                   !.typ = inner.header.typ,
                   !.cty = inner.header.cty])

\* JwsInner::sign(signer)
sign(inner, signer, k) == sign_inner(inner, signer, None, None, k)

\* JwsInner::sign_embed_public_jwk(signer)
sign_embed_public_jwk(inner, signer, k) ==
    LET Embedded(jwk) ==
            IF ~jwk.ok THEN jwk ELSE sign_inner(inner, signer, None, Some(jwk.val), k)
    IN Embedded(public_key_as_jwk(signer, None))

\* JwsCompact::get_jwk_pubkey_url
get_jwk_pubkey_url(jwsc) == jwsc.header.jku

\* JwsCompact::get_jwk_pubkey
get_jwk_pubkey(jwsc) == jwsc.header.jwk

\* X509StoreContext::init(&ca_store, &leaf, &chain_stack, verify_cert) with
\* the empty store: the provider's X509VerifyResult.  Which certificates a
\* provider accepts is the provider's matter; the model has a leaf for each
\* of three verdicts.
VerifyCert(leaf, chain) ==
    IF leaf = <<48, 1, 9>> THEN "OK"
    ELSE IF leaf = <<48, 1, 8>> THEN "DEPTH_ZERO_SELF_SIGNED_CERT"
    ELSE "UNABLE_TO_GET_ISSUER_CERT_LOCALLY"

get_x5c_pubkeyLenient(jwsc) ==
    LET Leaf(fullchain) ==
            IF fullchain = <<>> THEN Ok(None)
            ELSE IF VerifyCert(Head(fullchain), Tail(fullchain)) # "OK"
            THEN Err("X5cPublicKeyDenied")
            ELSE Ok(Some(Head(fullchain)))
    IN IF jwsc.header.x5c = None THEN Ok(None) ELSE Leaf(Unwrap(jwsc.header.x5c))

\* JwsCompact::get_x5c_pubkey
get_x5c_pubkey(jwsc) ==
    LET Leaf(fullchain) ==
            IF fullchain = <<>> THEN Err("InvalidHeaderFormat")
            ELSE IF VerifyCert(Head(fullchain), Tail(fullchain)) # "OK"
            THEN Err("X5cPublicKeyDenied")
            ELSE Ok(Some(Head(fullchain)))
    IN IF jwsc.header.x5c = None THEN Ok(None) ELSE Leaf(Unwrap(jwsc.header.x5c))

try_from_jwkByAlg(value) ==
    LET OnCurve(xbn, ybn) ==
            IF \E id \in KeyIds : EcAffine([key |-> id, size |-> 32]) = [x |-> xbn, y |-> ybn]
            THEN Ok([alg |-> "ES256", size |-> 32,
                     key |-> CHOOSE id \in KeyIds :
                                 EcAffine([key |-> id, size |-> 32]) = [x |-> xbn, y |-> ybn]])
            ELSE Err("OpenSSLError")
        Components(nbn, ebn) ==
            Ok([alg |-> "RS256", size |-> Len(nbn),
                key |-> IF ebn = RsaExponent /\ Len(nbn) > 0
                           /\ nbn = RsaModulus([key |-> nbn[1] - 128, size |-> Len(nbn)])
                        THEN nbn[1] - 128 ELSE 0])
    IN IF value.alg = Some("HS256") THEN Ok([alg |-> "HS256", key |-> 1, size |-> 32])
       ELSE IF value.kty = "EC" THEN OnCurve(BnFromSlice(value.x), BnFromSlice(value.y))
       ELSE Components(BnFromSlice(value.n), BnFromSlice(value.e))

\* TryFrom<&Jwk> for JwsValidator: an EC key from the point (x, y), which
\* must lie on P-256; an RSA key from n and e, whatever they are (key 0 is a
\* key no signer holds).
try_from_jwk(value) ==
    LET OnCurve(xbn, ybn) ==
            IF \E id \in KeyIds : EcAffine([key |-> id, size |-> 32]) = [x |-> xbn, y |-> ybn]
            THEN Ok([alg |-> "ES256", size |-> 32,
                     key |-> CHOOSE id \in KeyIds :
                                 EcAffine([key |-> id, size |-> 32]) = [x |-> xbn, y |-> ybn]])
            ELSE Err("OpenSSLError")
        Components(nbn, ebn) ==
            Ok([alg |-> "RS256", size |-> Len(nbn),
                key |-> IF ebn = RsaExponent /\ Len(nbn) > 0
                           /\ nbn = RsaModulus([key |-> nbn[1] - 128, size |-> Len(nbn)])
                        THEN nbn[1] - 128 ELSE 0])
    IN IF value.kty = "EC" THEN OnCurve(BnFromSlice(value.x), BnFromSlice(value.y))
       ELSE Components(BnFromSlice(value.n), BnFromSlice(value.e))

to_stringPadded(jwsc) ==
    LET Padded(s) == s \o Fill((4 - (Len(s) % 4)) % 4, PAD_BYTE)
    IN Padded(B64Encode(HeaderToJson(jwsc.header))) \o <<DOT>>
       \o Padded(B64Encode(jwsc.payload)) \o <<DOT>> \o Padded(B64Encode(jwsc.signature))

\* Display for JwsCompact (to_string): the header is serialized afresh.
to_string(jwsc) ==
    B64Encode(HeaderToJson(jwsc.header)) \o <<DOT>> \o B64Encode(jwsc.payload)
    \o <<DOT>> \o B64Encode(jwsc.signature)

\* str::splitn(n, '.'): at most n pieces, the last holding the rest of s.
RECURSIVE SplitN(_, _)
SplitN(s, n) ==
    LET d == FindDot(s, 1) IN
    IF n <= 1 \/ d = 0 THEN <<s>>
    ELSE <<Take(s, d - 1)>> \o SplitN(Drop(s, d), n - 1)

\* A parser that would report a segment that is not base64url as a bad header.
DecodeSegmentAsHeaderError(seg) ==
    IF B64Valid(seg) THEN Ok(B64Decode(seg)) ELSE Err("InvalidHeaderFormat")

\* base64::decode_config(seg, URL_SAFE_NO_PAD).map_err(|_| InvalidBase64)
DecodeSegment(seg) ==
    IF B64Valid(seg) THEN Ok(B64Decode(seg)) ELSE Err("InvalidBase64")

\* The header segment decoded, then serde_json::from_slice on its octets.
DecodeHeader(hdr_str) ==
    LET Parsed(r) == IF r.ok THEN Ok(r.val) ELSE Err("InvalidHeaderFormat")
        Decoded(bytes) == IF ~bytes.ok THEN bytes ELSE Parsed(JsonToHeader(bytes.val))
    IN Decoded(DecodeSegment(hdr_str))

\* A parser that would refuse every crit that is present, the empty one too.
CritRejectsPresent(header) == IsSome(header.crit)

\* The crit check: a crit that is present and not empty.
CritRejects(header) == IsSome(header.crit) /\ Len(Unwrap(header.crit)) > 0

\* A parser that would report a missing piece as a base64 error.
NextSegmentAsBase64Error(siter, n) ==
    IF Len(siter) >= n THEN Ok(siter[n]) ELSE Err("InvalidBase64")

\* siter.next().ok_or(JwtError::InvalidCompactFormat) for the n-th piece
NextSegment(siter, n) ==
    IF Len(siter) >= n THEN Ok(siter[n]) ELSE Err("InvalidCompactFormat")

\* A parser that would cut the input at its first '.' instead of its last.
DataInputFirst(s) == Take(s, FindDot(s, 1) - 1)

\* data_input of s.rsplit_once("."): what precedes the last '.'.
DataInput(s) == Take(s, RFindDot(s) - 1)

\* A parser that would rebuild sign_input from the decoded header and payload.
JwsCompactRebuilt(header, payload, data_input, signature) ==
    [header |-> header, payload |-> payload,
     sign_input |-> B64Encode(HeaderToJson(header)) \o <<DOT>> \o B64Encode(payload),
     signature |-> signature]

\* The JwsCompact from_str returns: sign_input is data_input as it was read.
JwsCompact(header, payload, data_input, signature) ==
    [header |-> header, payload |-> payload,
     sign_input |-> data_input, signature |-> signature]

from_strCountFirst(s) ==
    LET Read(hdr_str, payload_str, sig_str, more, header, payload, signature) ==
            IF ~payload_str.ok THEN payload_str
            ELSE IF ~sig_str.ok THEN sig_str
            ELSE IF more.ok THEN Err("InvalidCompactFormat")
            ELSE IF ~header.ok THEN header
            ELSE IF CritRejects(header.val) THEN Err("CriticalExtension")
            ELSE IF ~payload.ok THEN payload
            ELSE IF ~signature.ok THEN signature
            ELSE IF RFindDot(s) = 0 THEN Err("InvalidCompactFormat")
            ELSE IF DataInput(s) # hdr_str.val \o <<DOT>> \o payload_str.val THEN Panic
            ELSE Ok(JwsCompact(header.val, payload.val, DataInput(s), signature.val))
        Pieces(hdr_str, payload_str, sig_str, more) ==
            Read(hdr_str, payload_str, sig_str, more, DecodeHeader(hdr_str.val),
                 DecodeSegment(payload_str.val), DecodeSegment(sig_str.val))
        Split(siter) ==
            Pieces(NextSegment(siter, 1), NextSegment(siter, 2), NextSegment(siter, 3),
                   NextSegment(siter, 4))
    IN Split(SplitN(s, 3))

\* JwsCompact::from_str(s).  The pieces of splitn are read in the order of
\* the code; the assertion on data_input aborts when it fails.
from_str(s) ==
    LET Read(hdr_str, payload_str, sig_str, more, header, payload, signature) ==
            IF ~header.ok THEN header
            ELSE IF CritRejects(header.val) THEN Err("CriticalExtension")
            ELSE IF ~payload_str.ok THEN payload_str
            ELSE IF ~sig_str.ok THEN sig_str
            ELSE IF more.ok THEN Err("InvalidCompactFormat")
            ELSE IF ~payload.ok THEN payload
            ELSE IF ~signature.ok THEN signature
            ELSE IF RFindDot(s) = 0 THEN Err("InvalidCompactFormat")
            ELSE IF DataInput(s) # hdr_str.val \o <<DOT>> \o payload_str.val THEN Panic
            ELSE Ok(JwsCompact(header.val, payload.val, DataInput(s), signature.val))
        Pieces(hdr_str, payload_str, sig_str, more) ==
            Read(hdr_str, payload_str, sig_str, more, DecodeHeader(hdr_str.val),
                 DecodeSegment(payload_str.val), DecodeSegment(sig_str.val))
        Split(siter) ==
            Pieces(NextSegment(siter, 1), NextSegment(siter, 2), NextSegment(siter, 3),
                   NextSegment(siter, 4))
    IN Split(SplitN(s, 3))

\* A validate whose HS256 validator would take a header of any family.
SameFamilyLoose(validator, alg) == validator.alg = alg \/ validator.alg = "HS256"

\* The match of validate selects an arm: validator and header.alg are of
\* the same family.
SameFamily(validator, alg) == validator.alg = alg

LengthOkFrom128(jwsc, validator) ==
    IF validator.alg = "ES256" THEN Len(jwsc.signature) = 64
    ELSE IF validator.alg = "RS256" THEN Len(jwsc.signature) >= 128
    ELSE TRUE

\* The length check at the head of the ES256 and the RS256 arm.
LengthOk(jwsc, validator) ==
    IF validator.alg = "ES256" THEN Len(jwsc.signature) = 64
    ELSE IF validator.alg = "RS256" THEN Len(jwsc.signature) >= 256
    ELSE TRUE

\* A validate that would not look at the provider's verdict.
VerifiedIgnored(jwsc, validator) == TRUE

\* The provider's verdict on the stored signature in the arm of validate
\* that the validator selects.
Verified(jwsc, validator) ==
    IF validator.alg = "ES256"
    THEN EcdsaVerify(validator, Sha256(jwsc.sign_input),
                     [r |-> BnFromSlice(SubSeq(jwsc.signature, 1, 32)),
                      s |-> BnFromSlice(SubSeq(jwsc.signature, 33, 64))])
    ELSE IF validator.alg = "RS256"
    THEN RsaVerify(validator, jwsc.sign_input, jwsc.signature)
    ELSE jwsc.signature = HmacSign(validator, jwsc.sign_input)

\* What a successful validate releases.
Released(jwsc) == [header |-> HeaderFrom(jwsc.header), payload |-> jwsc.payload]

\* JwsCompact::validate(validator).  The slices signature[..32] and
\* signature[32..64] of the ES256 arm abort on a shorter signature.
validate(jwsc, validator) ==
    IF ~SameFamily(validator, jwsc.header.alg) THEN Err("ValidatorAlgMismatch")
    ELSE IF ~LengthOk(jwsc, validator) THEN Err("InvalidSignature")
    ELSE IF validator.alg = "ES256" /\ Len(jwsc.signature) < 64 THEN Panic
    ELSE IF Verified(jwsc, validator) THEN Ok(Released(jwsc))
    ELSE Err("InvalidSignature")

(***************************************************************************)
(* The inputs of the model.                                                *)
(***************************************************************************)
\* The longest payload of a JwsInner, in octets.
MaxPayloadLen == 2
\* The most dot-separated segments of a string received from outside.
MaxSegments == 4

PayloadBytes == {0, 255}

RECURSIVE SeqsUpTo(_, _)
SeqsUpTo(S, n) ==
    IF n = 0 THEN {<<>>}
    ELSE LET shorter == SeqsUpTo(S, n - 1) IN
         shorter \cup {Append(q, e) : q \in {r \in shorter : Len(r) = n - 1}, e \in S}

Payloads == SeqsUpTo(PayloadBytes, MaxPayloadLen)

\* Values of kid, typ and cty: "a", a quote and a backslash, "JWT", "".
Kids == {<<97>>, <<34, 92>>}
Typs == {<<74, 87, 84>>}
Ctys == {<<>>}

\* Signers: generate_es256 and generate_legacy_rs256 give a P-256 key and a
\* 3072-bit key; from_es256_der and from_rs256_der restore whatever key the
\* DER holds (here also a P-384 key, a 2048-bit and a 1024-bit RSA key).
Signers ==
    {[alg |-> "ES256", key |-> 1, size |-> 32], [alg |-> "ES256", key |-> 2, size |-> 32],
     [alg |-> "ES256", key |-> 1, size |-> 48],
     [alg |-> "RS256", key |-> 1, size |-> 384], [alg |-> "RS256", key |-> 2, size |-> 256],
     [alg |-> "RS256", key |-> 1, size |-> 128],
     [alg |-> "HS256", key |-> 1, size |-> 32], [alg |-> "HS256", key |-> 2, size |-> 32]}

Validators == {get_validator(sg) : sg \in Signers}

NoKey == [alg |-> "", key |-> 0, size |-> 0]
NoResult == [ok |-> FALSE, err |-> "none", val |-> <<>>]
NoInner == [header |-> [kid |-> None, typ |-> None, cty |-> None], payload |-> <<>>]

\* Headers a peer may send, serialized as this library would.
WireHeaders ==
    {[EmptyHeader(a) EXCEPT !.crit = c] :
        a \in AlgNames, c \in {None, Some(<<>>), Some(<< <<101, 120, 112>> >>)}}

\* {"typ":"JWT",\r\n "alg":"HS256"}: the header of RFC 7515 A.1, typ first.
Rfc7515A1Header ==
    <<123, 34, 116, 121, 112, 34, 58, 34, 74, 87, 84, 34, 44, 13, 10, 32,
      34, 97, 108, 103, 34, 58, 34, 72, 83, 50, 53, 54, 34, 125>>

\* Header segments that hold no header: {} (no alg), {"alg":"none"}, nothing.
BadJsonSegs ==
    {B64Encode(<<123, 125>>),
     B64Encode(<<123, 34, 97, 108, 103, 34, 58, 34, 110, 111, 110, 101, 34, 125>>),
     <<>>}

\* Segments the base64url decoder refuses: "A" (a length of 1 mod 4), "AB"
\* (discarded bits set), "A!" (a character outside the alphabet).
BadB64Segs == {<<65>>, <<65, 66>>, <<65, 33>>}

\* The empty segment, which decodes to no octets.
EmptySeg == <<>>

\* Segments the decoder takes: "AA", "AA==", and 64 zero octets.
GoodB64Segs == {<<65, 65>>, <<65, 65, 61, 61>>, B64Encode(Fill(64, 0))}

HeaderSegs ==
    {B64Encode(HeaderToJson(h)) : h \in WireHeaders} \cup {B64Encode(Rfc7515A1Header)}
    \cup BadJsonSegs \cup BadB64Segs

OtherSegs == GoodB64Segs \cup BadB64Segs \cup {EmptySeg}

\* The segments of the strings received: a header segment, then up to
\* MaxSegments - 1 further segments.
RECURSIVE SegLists(_)
SegLists(n) ==
    IF n = 1 THEN {<<h>> : h \in HeaderSegs}
    ELSE LET shorter == SegLists(n - 1) IN
         shorter \cup {Append(q, e) : q \in {r \in shorter : Len(r) = n - 1}, e \in OtherSegs}

ReceivedSegLists == SegLists(MaxSegments)

\* The segments joined with '.'.
RECURSIVE Join(_)
Join(segs) ==
    IF Len(segs) = 1 THEN segs[1]
    ELSE segs[1] \o <<DOT>> \o Join(Tail(segs))

\* Characters a tampered position is overwritten with: A F I S _ . = !
TamperChars == {65, 70, 73, 83, 95, 46, 61, 33}

(***************************************************************************)
(* The state: one use of the library.  path lists the operations done so   *)
(* far; inner, signer, jwsc, text, validator and released are their        *)
(* arguments and results; sent is the list of segments a received string   *)
(* was put together from, and tamper the position changed in a string; der *)
(* and jwk are the results of exporting the signer's key, pubkey is the    *)
(* result of get_x5c_pubkey and built that of building a validator from a  *)
(* published key.                                                          *)
(***************************************************************************)
VARIABLES path, inner, signer, jwsc, text, sent, tamper, validator, released, der, jwk,
          pubkey, built

vars == <<path, inner, signer, jwsc, text, sent, tamper, validator, released, der, jwk,
          pubkey, built>>

Last(seq) == seq[Len(seq)]
pc == IF path = <<>> THEN "idle" ELSE Last(path)

Init ==
    /\ path = <<>>
    /\ inner = NoInner
    /\ signer = NoKey
    /\ jwsc = NoResult
    /\ text = <<>>
    /\ sent = <<>>
    /\ tamper = None
    /\ validator = NoKey
    /\ released = NoResult
    /\ der = NoResult
    /\ jwk = NoResult
    /\ pubkey = NoResult
    /\ built = NoResult

\* JwsInner::new(payload)
new(payload) ==
    /\ pc = "idle"
    /\ path' = <<"new">>
    /\ inner' = [header |-> [kid |-> None, typ |-> None, cty |-> None], payload |-> payload]
    /\ UNCHANGED <<signer, jwsc, text, sent, tamper, validator, released, der, jwk,
                 pubkey, built>>

\* JwsInner::set_kid(kid)
set_kid(kid) ==
    /\ pc = "new"
    /\ inner.header.kid = None
    /\ inner' = [inner EXCEPT !.header.kid = Some(kid)]
    /\ UNCHANGED <<path, signer, jwsc, text, sent, tamper, validator, released, der, jwk,
                 pubkey, built>>

\* JwsInner::set_typ(typ)
set_typ(typ) ==
    /\ pc = "new"
    /\ inner.header.typ = None
    /\ inner' = [inner EXCEPT !.header.typ = Some(typ)]
    /\ UNCHANGED <<path, signer, jwsc, text, sent, tamper, validator, released, der, jwk,
                 pubkey, built>>

\* JwsInner::set_cty(cty)
set_cty(cty) ==
    /\ pc = "new"
    /\ inner.header.cty = None
    /\ inner' = [inner EXCEPT !.header.cty = Some(cty)]
    /\ UNCHANGED <<path, signer, jwsc, text, sent, tamper, validator, released, der, jwk,
                 pubkey, built>>

\* JwsInner::sign(signer); k is the nonce the provider draws for ES256.
Sign(sg, k) ==
    /\ pc = "new"
    /\ k \in (IF sg.alg = "ES256" THEN Nonces ELSE {1})
    /\ path' = Append(path, "sign")
    /\ signer' = sg
    /\ jwsc' = sign(inner, sg, k)
    /\ UNCHANGED <<inner, text, sent, tamper, validator, released, der, jwk,
                 pubkey, built>>

\* JwsCompact::to_string() of the object just signed
Display ==
    /\ pc = "sign"
    /\ jwsc.ok
    /\ path' = Append(path, "to_string")
    /\ text' = to_string(jwsc.val)
    /\ UNCHANGED <<inner, signer, jwsc, sent, tamper, validator, released, der, jwk,
                 pubkey, built>>

\* A string arrives from outside: segs joined with '.'.
Receive(segs) ==
    /\ path' = <<"receive">>
    /\ sent' = segs
    /\ text' = Join(segs)
    /\ UNCHANGED <<inner, signer, jwsc, tamper, validator, released, der, jwk,
                 pubkey, built>>

\* A peer holding key sg signs the segments h and p as they are and sends
\* h.p.signature.
ReceiveSigned(h, p, sg, k) ==
    /\ k \in (IF sg.alg = "ES256" THEN Nonces ELSE {1})
    /\ Signature(sg, h \o <<DOT>> \o p, k).ok
    /\ path' = <<"receive">>
    /\ signer' = sg
    /\ sent' = <<h, p, B64Encode(Signature(sg, h \o <<DOT>> \o p, k).val)>>
    /\ text' = Join(sent')
    /\ UNCHANGED <<inner, jwsc, tamper, validator, released, der, jwk,
                 pubkey, built>>

\* The segment (1, 2 or 3) position i of s lies in; 0 for a separator.
SegmentOf(s, i) ==
    IF s[i] = DOT THEN 0
    ELSE 1 + Cardinality({j \in 1..i : s[j] = DOT})

\* One character of a serialized token is changed on the way.
Tamper(i, c) ==
    /\ c # text[i]
    /\ path' = Append(path, "tamper")
    /\ tamper' = Some([pos |-> i, seg |-> SegmentOf(text, i)])
    /\ text' = [text EXCEPT ![i] = c]
    /\ UNCHANGED <<inner, signer, jwsc, sent, validator, released, der, jwk,
                 pubkey, built>>

\* JwsCompact::from_str(text)
FromStr ==
    /\ pc \in {"to_string", "receive", "tamper"}
    /\ path' = Append(path, "from_str")
    /\ jwsc' = from_str(text)
    /\ UNCHANGED <<inner, signer, text, sent, tamper, validator, released, der, jwk,
                 pubkey, built>>

\* jwsc.validate(v), on an object from sign or from from_str
Validate(v) ==
    /\ pc \in {"sign", "from_str"}
    /\ jwsc.ok
    /\ path' = Append(path, "validate")
    /\ validator' = v
    /\ released' = validate(jwsc.val, v)
    /\ UNCHANGED <<inner, signer, jwsc, text, sent, tamper, der, jwk,
                 pubkey, built>>

Next ==
    \/ \E payload \in Payloads : new(payload)
    \/ \E kid \in Kids : set_kid(kid)
    \/ \E typ \in Typs : set_typ(typ)
    \/ \E cty \in Ctys : set_cty(cty)
    \/ \E sg \in Signers, k \in Nonces : Sign(sg, k)
    \/ Display
    \/ pc = "idle" /\ \E segs \in ReceivedSegLists : Receive(segs)
    \/ pc = "idle" /\ \E h \in HeaderSegs, p \in GoodB64Segs, sg \in Signers, k \in Nonces :
                         ReceiveSigned(h, p, sg, k)
    \/ FromStr
    \/ \E v \in Validators : Validate(v)

Spec == Init /\ [][Next]_vars

(***************************************************************************)
(* Tampering: a token is signed and serialized, one of its characters is   *)
(* changed, and the receiver parses it and validates it with the signer's  *)
(* own validator.                                                          *)
(***************************************************************************)
TamperPayloads == {<<0, 255>>}
TamperSigners ==
    {[alg |-> "ES256", key |-> 1, size |-> 32], [alg |-> "RS256", key |-> 2, size |-> 256],
     [alg |-> "HS256", key |-> 1, size |-> 32]}

NextTamper ==
    \/ \E payload \in TamperPayloads : new(payload)
    \/ \E kid \in {<<97>>} : set_kid(kid)
    \/ \E sg \in TamperSigners, k \in Nonces : Sign(sg, k)
    \/ Display
    \/ pc = "to_string" /\ \E i \in 1..Len(text), c \in TamperChars : Tamper(i, c)
    \/ FromStr
    \/ Validate(get_validator(signer))

SpecTamper == Init /\ [][NextTamper]_vars

(***************************************************************************)
(* Key handling: a signer is generated or imported, its private key is     *)
(* exported and imported again, and its public key is exported as a JWK.   *)
(***************************************************************************)
\* The private keys that arrive as DER, and octets that are no private key.
ImportedDers ==
    {EcPrivateDer([key |-> 1, size |-> 32]), EcPrivateDer([key |-> 2, size |-> 48]),
     RsaPrivateDer([key |-> 1, size |-> 256]), RsaPrivateDer([key |-> 2, size |-> 384]),
     RsaPrivateDer([key |-> 1, size |-> 512]), <<SEQUENCE_TAG, 2, 0, 0, 0>>, <<>>}

JwkKids == {None, Some(<<97>>)}

\* JwsSigner::generate_es256, generate_legacy_rs256, generate_hs256
Generate(alg, k) ==
    /\ pc = "idle"
    /\ path' = <<"generate">>
    /\ signer' = (IF alg = "ES256" THEN generate_es256(k)
                  ELSE IF alg = "RS256" THEN generate_legacy_rs256(k)
                  ELSE generate_hs256(k)).val
    /\ UNCHANGED <<inner, jwsc, text, sent, tamper, validator, released, der, jwk,
                 pubkey, built>>

\* The from_*_der of the family alg: from_es256_der or from_rs256_der.
from_der(alg, bytes) ==
    IF alg = "ES256" THEN from_es256_der(bytes) ELSE from_rs256_der(bytes)

\* JwsSigner::from_es256_der(bytes), from_rs256_der(bytes) on DER from outside
ImportDer(alg, bytes) ==
    /\ pc = "idle"
    /\ from_der(alg, bytes).ok
    /\ path' = <<"from_der">>
    /\ signer' = from_der(alg, bytes).val
    /\ UNCHANGED <<inner, jwsc, text, sent, tamper, validator, released, der, jwk,
                 pubkey, built>>

\* signer.private_key_to_der()
PrivateKeyToDer ==
    /\ pc \in {"generate", "from_der"}
    /\ der = NoResult
    /\ path' = Append(path, "private_key_to_der")
    /\ der' = private_key_to_der(signer)
    /\ UNCHANGED <<inner, signer, jwsc, text, sent, tamper, validator, released, jwk,
                 pubkey, built>>

\* from_*_der(der) on the DER just exported: the signer is restored from it.
Restore ==
    /\ pc = "private_key_to_der"
    /\ der.ok
    /\ from_der(signer.alg, der.val).ok
    /\ path' = Append(path, "from_der")
    /\ signer' = from_der(signer.alg, der.val).val
    /\ UNCHANGED <<inner, jwsc, text, sent, tamper, validator, released, der, jwk,
                 pubkey, built>>

\* signer.public_key_as_jwk(kid)
PublicKeyAsJwk(kid) ==
    /\ pc \in {"generate", "from_der", "private_key_to_der"}
    /\ path' = Append(path, "public_key_as_jwk")
    /\ jwk' = public_key_as_jwk(signer, kid)
    /\ UNCHANGED <<inner, signer, jwsc, text, sent, tamper, validator, released, der,
                 pubkey, built>>

KeyPayloads == {<<0, 1, 2, 3, 4>>, <<>>}

\* JwsInner::new(payload), by the holder of the signer
NewFor(payload) ==
    /\ pc \in {"generate", "from_der"}
    /\ path' = Append(path, "new")
    /\ inner' = [header |-> [kid |-> None, typ |-> None, cty |-> None], payload |-> payload]
    /\ UNCHANGED <<signer, jwsc, text, sent, tamper, validator, released, der, jwk,
                 pubkey, built>>

\* inner.sign_embed_public_jwk(signer); k is the provider's nonce for ES256.
SignEmbed(k) ==
    /\ pc = "new"
    /\ signer # NoKey
    /\ k \in (IF signer.alg = "ES256" THEN Nonces ELSE {1})
    /\ path' = Append(path, "sign_embed_public_jwk")
    /\ jwsc' = sign_embed_public_jwk(inner, signer, k)
    /\ UNCHANGED <<inner, signer, text, sent, tamper, validator, released, der, jwk,
                 pubkey, built>>

\* JwsValidator::try_from(jwsc.get_jwk_pubkey())
TryFromJwk ==
    /\ pc = "sign_embed_public_jwk"
    /\ jwsc.ok
    /\ IsSome(get_jwk_pubkey(jwsc.val))
    /\ try_from_jwk(Unwrap(get_jwk_pubkey(jwsc.val))).ok
    /\ path' = Append(path, "try_from")
    /\ validator' = try_from_jwk(Unwrap(get_jwk_pubkey(jwsc.val))).val
    /\ UNCHANGED <<inner, signer, jwsc, text, sent, tamper, released, der, jwk,
                 pubkey, built>>

\* jwsc.validate(validator) with the validator built from the embedded key
ValidateBuilt ==
    /\ pc = "try_from"
    /\ path' = Append(path, "validate")
    /\ released' = validate(jwsc.val, validator)
    /\ UNCHANGED <<inner, signer, jwsc, text, sent, tamper, validator, der, jwk,
                 pubkey, built>>

NextKeys ==
    \/ \E alg \in AlgNames, k \in KeyIds : Generate(alg, k)
    \/ \E alg \in {"ES256", "RS256"}, bytes \in ImportedDers : ImportDer(alg, bytes)
    \/ PrivateKeyToDer
    \/ Restore
    \/ \E kid \in JwkKids : PublicKeyAsJwk(kid)
    \/ \E payload \in KeyPayloads : NewFor(payload)
    \/ \E kid \in Kids : set_kid(kid)
    \/ \E typ \in Typs : set_typ(typ)
    \/ \E cty \in Ctys : set_cty(cty)
    \/ \E k \in Nonces : SignEmbed(k)
    \/ TryFromJwk
    \/ ValidateBuilt

SpecKeys == Init /\ [][NextKeys]_vars

(***************************************************************************)
(* Re-serialization: a token that was parsed, and perhaps validated, is    *)
(* written out again with to_string, and the receiver of that string       *)
(* parses and validates it.                                                *)
(***************************************************************************)
\* {"alg":"HS256","x5c":["MAEH"]}: a chain of one certificate.
X5cWireHeader ==
    <<123, 34, 97, 108, 103, 34, 58, 34, 72, 83, 50, 53, 54, 34, 44,
      34, 120, 53, 99, 34, 58, 91, 34, 77, 65, 69, 72, 34, 93, 125>>

ReserializedHeaderSegs ==
    {B64Encode(HeaderToJson(h)) : h \in WireHeaders}
    \cup {B64Encode(Rfc7515A1Header), B64Encode(X5cWireHeader)}

\* How many times op was done so far.
Count(op) == Cardinality({i \in DOMAIN path : path[i] = op})

\* JwsCompact::to_string() of an object that from_str returned
Reserialize ==
    /\ pc \in {"from_str", "validate"}
    /\ Count("from_str") = 1
    /\ jwsc.ok
    /\ path' = Append(path, "to_string")
    /\ text' = to_string(jwsc.val)
    /\ UNCHANGED <<inner, signer, jwsc, sent, tamper, validator, released, der, jwk,
                 pubkey, built>>

NextReserialize ==
    \/ \E payload \in TamperPayloads : new(payload)
    \/ \E kid \in Kids : set_kid(kid)
    \/ \E sg \in Signers, k \in Nonces : Sign(sg, k)
    \/ Display
    \/ pc = "idle" /\ \E h \in ReserializedHeaderSegs, p \in GoodB64Segs, sg \in Signers,
                            k \in Nonces : ReceiveSigned(h, p, sg, k)
    \/ FromStr
    \/ Reserialize
    \/ \E v \in Validators : Validate(v)

SpecReserialize == Init /\ [][NextReserialize]_vars

(***************************************************************************)
(* Certificate chains: a token whose header may carry x5c is received and  *)
(* parsed, and the receiver asks for the public key of its chain.          *)
(***************************************************************************)
\* The values of the x5c member: null, [], and chains of the certificates
\* "MAEH", "MAEI" and "MAEJ" (the base64 of 48 1 7, 48 1 8 and 48 1 9).
X5cValues ==
    {NullWord, <<91, 93>>,
     JsonStringArray(<< <<77, 65, 69, 72>> >>),
     JsonStringArray(<< <<77, 65, 69, 73>>, <<77, 65, 69, 72>> >>),
     JsonStringArray(<< <<77, 65, 69, 74>>, <<77, 65, 69, 72>> >>),
     JsonStringArray(<< <<77, 65, 69, 72>>, <<77, 65, 69, 74>> >>)}

\* {"alg":"HS256"} and {"alg":"HS256","x5c":value} for each of the values.
X5cHeaderSegs ==
    {B64Encode(HeaderToJson(EmptyHeader("HS256")))}
    \cup {B64Encode(<<123>> \o JsonString(FieldBytes("alg")) \o <<58>>
                    \o JsonString(AlgBytes("HS256")) \o Member("x5c", value) \o <<125>>) :
             value \in X5cValues}

\* jwsc.get_x5c_pubkey() on an object that from_str returned
GetX5cPubkey ==
    /\ pc = "from_str"
    /\ jwsc.ok
    /\ path' = Append(path, "get_x5c_pubkey")
    /\ pubkey' = get_x5c_pubkey(jwsc.val)
    /\ UNCHANGED <<inner, signer, jwsc, text, sent, tamper, validator, released, der, jwk,
                   built>>

NextX5c ==
    \/ pc = "idle" /\ \E h \in X5cHeaderSegs, p \in GoodB64Segs, sg \in Signers,
                            k \in Nonces : ReceiveSigned(h, p, sg, k)
    \/ FromStr
    \/ GetX5cPubkey

SpecX5c == Init /\ [][NextX5c]_vars

(***************************************************************************)
(* Published keys: a token is received and parsed, a JWK obtained from     *)
(* outside is turned into a validator, and the token is validated with it. *)
(***************************************************************************)
\* The alg, use and kid members a JWK from outside comes with.
JwkLabels ==
    {[alg |-> None, use |-> None, kid |-> None],
     [alg |-> Some("ES256"), use |-> Some("sig"), kid |-> Some(<<97>>)],
     [alg |-> Some("RS256"), use |-> Some("enc"), kid |-> Some(<<97>>)],
     [alg |-> Some("HS256"), use |-> Some("sig"), kid |-> None]}

\* JWKs from outside: the public points of the two P-256 keys (x of key 1
\* with its leading zero), the pair (1, 1), which is no point of P-256, the
\* public components of a generated RSA key and a modulus of one octet.
OutsideJwks ==
    {[kty |-> "EC", crv |-> "P-256", x |-> xy[1], y |-> xy[2],
      alg |-> l.alg, use |-> l.use, kid |-> l.kid] :
        xy \in {<<Fill(32 - Len(EcAffine([key |-> id, size |-> 32]).x), 0)
                     \o EcAffine([key |-> id, size |-> 32]).x,
                  EcAffine([key |-> id, size |-> 32]).y>> : id \in KeyIds}
                \cup {<< <<1>>, <<1>> >>},
        l \in JwkLabels}
    \cup {[kty |-> "RSA", n |-> ne[1], e |-> ne[2],
           alg |-> l.alg, use |-> l.use, kid |-> l.kid] :
        ne \in {<<RsaModulus([key |-> 1, size |-> 384]), RsaExponent>>, << <<5>>, <<3>> >>},
        l \in JwkLabels}

\* {"alg":a} for each of the three algorithms.
AlgHeaderSegs == {B64Encode(HeaderToJson(EmptyHeader(a))) : a \in AlgNames}

\* JwsValidator::try_from(value) on a JWK from outside
TryFromOutsideJwk(value) ==
    /\ pc = "from_str"
    /\ jwsc.ok
    /\ path' = Append(path, "try_from")
    /\ jwk' = Ok(value)
    /\ built' = try_from_jwk(value)
    /\ validator' = IF built'.ok THEN built'.val ELSE validator
    /\ UNCHANGED <<inner, signer, jwsc, text, sent, tamper, released, der, pubkey>>

\* jwsc.validate(&validator) with the validator try_from returned
ValidateOutside ==
    /\ pc = "try_from"
    /\ built.ok
    /\ path' = Append(path, "validate")
    /\ released' = validate(jwsc.val, validator)
    /\ UNCHANGED <<inner, signer, jwsc, text, sent, tamper, validator, der, jwk,
                   pubkey, built>>

NextJwk ==
    \/ pc = "idle" /\ \E h \in AlgHeaderSegs, p \in GoodB64Segs, sg \in Signers,
                            k \in Nonces : ReceiveSigned(h, p, sg, k)
    \/ FromStr
    \/ \E value \in OutsideJwks : TryFromOutsideJwk(value)
    \/ ValidateOutside

SpecJwk == Init /\ [][NextJwk]_vars

(***************************************************************************)
(* The whole life of a token, with or without an embedded key: made by     *)
(* sign or sign_embed_public_jwk, or received from outside; serialized,    *)
(* parsed and validated.                                                   *)
(***************************************************************************)
\* JwsCompact::to_string() of an object made by sign_embed_public_jwk
DisplayEmbedded ==
    /\ pc = "sign_embed_public_jwk"
    /\ jwsc.ok
    /\ path' = Append(path, "to_string")
    /\ text' = to_string(jwsc.val)
    /\ UNCHANGED <<inner, signer, jwsc, sent, tamper, validator, released, der, jwk,
                   pubkey, built>>

\* The header segments of the tokens received: the headers of WireHeaders,
\* the header of RFC 7515 A.1 and the headers with x5c.
LifeHeaderSegs ==
    {B64Encode(HeaderToJson(h)) : h \in WireHeaders} \cup {B64Encode(Rfc7515A1Header)}
    \cup X5cHeaderSegs

NextLife ==
    \/ \E alg \in AlgNames, k \in KeyIds : Generate(alg, k)
    \/ \E payload \in KeyPayloads : NewFor(payload)
    \/ \E kid \in Kids : set_kid(kid)
    \/ \E typ \in Typs : set_typ(typ)
    \/ \E cty \in Ctys : set_cty(cty)
    \/ signer # NoKey /\ \E k \in Nonces : Sign(signer, k)
    \/ \E k \in Nonces : SignEmbed(k)
    \/ Display
    \/ DisplayEmbedded
    \/ pc = "idle" /\ \E h \in LifeHeaderSegs, p \in GoodB64Segs, sg \in TamperSigners,
                            k \in Nonces : ReceiveSigned(h, p, sg, k)
    \/ pc = "idle" /\ \E h \in LifeHeaderSegs, p \in GoodB64Segs :
                         Receive(<<h, p, <<65, 65>>, <<65, 65>> >>)
    \/ FromStr
    \/ Validate(get_validator(signer))

SpecLife == Init /\ [][NextLife]_vars

(***************************************************************************)
(* Properties.                                                             *)
(***************************************************************************)
\* The result r is the error e.
Failed(r, e) == ~r.ok /\ r.err = e

SignedPath == <<"new", "sign", "to_string", "from_str", "validate">>

\* C1 (as claimed): for every signer, payload and kid/typ/cty, sign succeeds,
\* the serialized token parses, and validating the parsed object with the
\* signer's own validator releases the original payload and kid/typ/cty.
RoundTripEverySigner ==
    /\ (pc = "sign" => jwsc.ok)
    /\ (path = SubSeq(SignedPath, 1, 4) => jwsc.ok)
    /\ (path = SignedPath /\ validator = get_validator(signer)
          => released.ok /\ released.val = inner)

\* The keys the library itself generates, or keys of their sizes: a P-256
\* key, an RSA key of at least 256 octets, an HMAC secret.
FixedSizeKey(sg) ==
    \/ sg.alg = "ES256" /\ sg.size = 32
    \/ sg.alg = "RS256" /\ sg.size >= 256
    \/ sg.alg = "HS256"

\* The round trip holds for the signers that hold such a key.
RoundTripFixedSizeKeys ==
    FixedSizeKey(signer) =>
        /\ (pc = "sign" => jwsc.ok)
        /\ (path = SubSeq(SignedPath, 1, 4) => jwsc.ok)
        /\ (path = SignedPath /\ validator = get_validator(signer)
              => released.ok /\ released.val = inner)

\* C2: whenever the validator's family differs from header.alg, validate
\* returns ValidatorAlgMismatch, whatever the object and its signature.
AlgConfusionRejected ==
    (pc = "validate" /\ validator.alg # jwsc.val.header.alg)
        => Failed(released, "ValidatorAlgMismatch")

\* C2 witness: a token signed by an RS256 signer, parsed, and validated with
\* an HS256 validator has been refused.
AlgConfusionWitness ==
    /\ path = SignedPath
    /\ signer.alg = "RS256"
    /\ validator.alg = "HS256"
    /\ Failed(released, "ValidatorAlgMismatch")

\* The provider accepts the stored signature over the stored sign_input
\* under the validator's key.
ProviderAccepts ==
    LET c == jwsc.val IN
    IF validator.alg = "HS256" THEN c.signature = HmacSign(validator, c.sign_input)
    ELSE IF validator.alg = "RS256" THEN RsaVerify(validator, c.sign_input, c.signature)
    ELSE /\ Len(c.signature) = 64
         /\ \E k \in Nonces :
               LET sig == EcdsaSign(validator, Sha256(c.sign_input), k) IN
               c.signature = PadTo32(sig.r) \o PadTo32(sig.s)

\* C3: with validator and header.alg of the same family, validate returns Ok
\* only if the provider accepts the signature, and InvalidSignature whenever
\* the provider does not.
NoSilentSuccess ==
    (pc = "validate" /\ validator.alg = jwsc.val.header.alg)
        => /\ (released.ok => ProviderAccepts)
           /\ (~ProviderAccepts => Failed(released, "InvalidSignature"))

\* C3 witness: a serialized and parsed HS256 token validated with another
\* HS256 secret has been refused as InvalidSignature.
NoSilentSuccessWitness ==
    /\ path = SignedPath
    /\ signer.alg = "HS256"
    /\ validator.alg = "HS256"
    /\ validator # get_validator(signer)
    /\ Failed(released, "InvalidSignature")

\* A tampered token has been parsed and, if it parsed, validated.
TamperDone ==
    /\ IsSome(tamper)
    /\ \/ pc = "from_str" /\ ~jwsc.ok
       \/ pc = "validate"

\* The error parsing-then-validating ended with ("" when validate returned Ok).
TamperError == IF pc = "validate" THEN released.err ELSE jwsc.err

\* C4 (as claimed): a token with one character changed fails, with
\* InvalidSignature when the character is in the payload or the signature
\* segment, and with InvalidHeaderFormat or InvalidSignature when it is in
\* the header segment.
TamperFailsAsClaimed ==
    TamperDone =>
        /\ Unwrap(tamper).seg \in {2, 3} => TamperError = "InvalidSignature"
        /\ Unwrap(tamper).seg = 1
              => TamperError \in {"InvalidHeaderFormat", "InvalidSignature"}

\* C4 (amended): a token with one character of a segment changed never
\* validates; a change in the payload or signature segment ends in
\* InvalidSignature or InvalidBase64, a change in the header segment in
\* InvalidBase64, InvalidHeaderFormat, InvalidSignature or
\* ValidatorAlgMismatch.
TamperFails ==
    TamperDone =>
        /\ TamperError # ""
        /\ Unwrap(tamper).seg \in {2, 3}
              => TamperError \in {"InvalidSignature", "InvalidBase64"}
        /\ Unwrap(tamper).seg = 1
              => TamperError \in {"InvalidBase64", "InvalidHeaderFormat",
                                  "InvalidSignature", "ValidatorAlgMismatch"}

\* C4 witness: one character of the header segment of an HS256 token was
\* changed, the header still parsed, now naming another algorithm, and the
\* signer's validator refused it as ValidatorAlgMismatch.
TamperWitness ==
    /\ TamperDone
    /\ signer.alg = "HS256"
    /\ Unwrap(tamper).seg = 1
    /\ pc = "validate"
    /\ TamperError = "ValidatorAlgMismatch"

\* The header segments whose header has a crit that is not empty.
CritSegs ==
    {B64Encode(HeaderToJson(h)) : h \in {w \in WireHeaders : w.crit \notin {None, Some(<<>>)}}}

\* The header segments whose header is well formed and has no crit entry.
PlainSegs ==
    {B64Encode(HeaderToJson(h)) : h \in {w \in WireHeaders : w.crit \in {None, Some(<<>>)}}}
    \cup {B64Encode(Rfc7515A1Header)}

\* A received string has been parsed.
ReceivedParsed == path = <<"receive", "from_str">>

\* C5: a three-segment string whose header has a non-empty crit is refused
\* with CriticalExtension, whatever its alg, payload and signature segments;
\* no string whose header has no crit or an empty one gets CriticalExtension.
CritRejected ==
    ReceivedParsed =>
        /\ (Len(sent) = 3 /\ sent[1] \in CritSegs) => Failed(jwsc, "CriticalExtension")
        /\ sent[1] \notin CritSegs => ~Failed(jwsc, "CriticalExtension")

\* C5 witness: CriticalExtension for a string whose payload segment is not
\* even base64url.
CritWitness ==
    /\ ReceivedParsed
    /\ Len(sent) = 3
    /\ sent[1] \in CritSegs
    /\ sent[2] \in BadB64Segs
    /\ Failed(jwsc, "CriticalExtension")

\* C6 (as claimed, for strings that begin with a well-formed header without
\* crit): a string of more than three segments is refused with
\* InvalidCompactFormat.
TooManySegments ==
    (ReceivedParsed /\ Len(sent) > 3 /\ sent[1] \in PlainSegs)
        => Failed(jwsc, "InvalidCompactFormat")

\* C7 (as claimed): a string of fewer than three segments is refused with
\* InvalidCompactFormat.
TooFewSegmentsAsClaimed ==
    (ReceivedParsed /\ Len(sent) < 3) => Failed(jwsc, "InvalidCompactFormat")

\* C7 (amended): a string of fewer than three segments is never accepted; it
\* is refused with InvalidCompactFormat when its first segment holds a header
\* without a non-empty crit, and otherwise with the error of its first
\* segment: InvalidBase64, InvalidHeaderFormat or CriticalExtension.
TooFewSegments ==
    (ReceivedParsed /\ Len(sent) < 3) =>
        /\ ~jwsc.ok
        /\ sent[1] \in PlainSegs => Failed(jwsc, "InvalidCompactFormat")
        /\ sent[1] \in BadB64Segs => Failed(jwsc, "InvalidBase64")
        /\ sent[1] \in BadJsonSegs => Failed(jwsc, "InvalidHeaderFormat")
        /\ sent[1] \in CritSegs => Failed(jwsc, "CriticalExtension")

\* C7 witness: a well-formed header segment and a payload segment, without
\* a signature segment, refused with InvalidCompactFormat.
TooFewWitness ==
    /\ ReceivedParsed
    /\ Len(sent) = 2
    /\ sent[1] \in PlainSegs
    /\ Failed(jwsc, "InvalidCompactFormat")

\* Some segment of the received string is refused by the base64url decoder.
SomeBadSegment == \E n \in 1..Len(sent) : sent[n] \in BadB64Segs

\* C8 (as claimed): a three-segment string with a segment that is not
\* base64url is refused with InvalidBase64.
BadBase64AsClaimed ==
    (ReceivedParsed /\ Len(sent) = 3 /\ SomeBadSegment) => Failed(jwsc, "InvalidBase64")

\* C8 (amended): a three-segment string with a segment the decoder refuses
\* is never accepted; it is refused with InvalidBase64 when the header
\* segment is such a segment or holds a header without a non-empty crit,
\* with InvalidHeaderFormat when the header segment decodes to no header,
\* and with CriticalExtension when its header has a non-empty crit.
BadBase64 ==
    (ReceivedParsed /\ Len(sent) = 3 /\ SomeBadSegment) =>
        /\ ~jwsc.ok
        /\ sent[1] \in BadB64Segs \cup PlainSegs => Failed(jwsc, "InvalidBase64")
        /\ sent[1] \in BadJsonSegs => Failed(jwsc, "InvalidHeaderFormat")
        /\ sent[1] \in CritSegs => Failed(jwsc, "CriticalExtension")

\* C8 witness: a well-formed header and payload segment with a signature
\* segment the decoder refuses, refused with InvalidBase64.
BadBase64Witness ==
    /\ ReceivedParsed
    /\ Len(sent) = 3
    /\ sent[1] \in PlainSegs
    /\ sent[2] \in GoodB64Segs
    /\ sent[3] \in BadB64Segs
    /\ Failed(jwsc, "InvalidBase64")

\* C9: the sign_input of an accepted string is the string up to its last
\* '.', which is its header segment, a '.', and its payload segment as
\* received.
VerbatimSignInput ==
    (pc = "from_str" /\ jwsc.ok) =>
        /\ jwsc.val.sign_input = Take(text, RFindDot(text) - 1)
        /\ sent # <<>> => jwsc.val.sign_input = sent[1] \o <<DOT>> \o sent[2]

\* C9 witness: an accepted string whose sign_input differs from what the
\* decoded header and payload serialize to.
VerbatimWitness ==
    /\ ReceivedParsed
    /\ jwsc.ok
    /\ jwsc.val.sign_input # B64Encode(HeaderToJson(jwsc.val.header)) \o <<DOT>>
                               \o B64Encode(jwsc.val.payload)

\* C10: from_str and validate return Ok or a JwtError and never abort.
Totality ==
    /\ pc = "from_str" => (jwsc.ok \/ jwsc.err \in JwtError)
    /\ pc = "validate" => (released.ok \/ released.err \in JwtError)

\* C10 witness: from_str has reached its assertion on a string received
\* from outside, and validate has returned on the object.
TotalityWitness ==
    /\ path = <<"receive", "from_str", "validate">>
    /\ released.err \in JwtError

\* C11: private_key_to_der on an HS256 signer always fails with
\* PrivateKeyDenied and public_key_as_jwk on an HS256 signer always fails
\* with JwkPublicKeyDenied, so neither returns anything of the secret; on an
\* ES256 or RS256 signer neither operation returns either of the two errors.
Denied == {"PrivateKeyDenied", "JwkPublicKeyDenied"}

ExportRestrictions ==
    /\ der # NoResult =>
          IF signer.alg = "HS256" THEN der = Err("PrivateKeyDenied") ELSE der.err \notin Denied
    /\ jwk # NoResult =>
          IF signer.alg = "HS256" THEN jwk = Err("JwkPublicKeyDenied") ELSE jwk.err \notin Denied

ExportRestrictionsWitness ==
    /\ signer.alg = "HS256"
    /\ der = Err("PrivateKeyDenied")
    /\ jwk = Err("JwkPublicKeyDenied")

\* C12: for ES256 and RS256, the signer restored from the exported DER of a
\* generated signer has the same public JWK as the generated one;
\* sign_embed_public_jwk with the restored signer gives a token with no jku
\* whose embedded jwk equals public_key_as_jwk(None), and a validator built
\* from the embedded JWK validates the token and returns the original payload.
Generated == path # <<>> /\ path[1] = "generate" /\ signer.alg # "HS256"

Restored == Generated /\ Len(path) >= 3 /\ path[3] = "from_der"

EmbeddedValidates(c) ==
    /\ get_jwk_pubkey_url(c) = None
    /\ get_jwk_pubkey(c) = Some(public_key_as_jwk(signer, None).val)
    /\ try_from_jwk(Unwrap(get_jwk_pubkey(c))).ok
    /\ validate(c, try_from_jwk(Unwrap(get_jwk_pubkey(c))).val).ok
    /\ validate(c, try_from_jwk(Unwrap(get_jwk_pubkey(c))).val).val.payload = inner.payload

GenerateCycle ==
    /\ Generated /\ pc = "private_key_to_der" =>
          /\ der.ok
          /\ from_der(signer.alg, der.val).ok
          /\ public_key_as_jwk(signer, None).ok
          /\ public_key_as_jwk(from_der(signer.alg, der.val).val, None)
                = public_key_as_jwk(signer, None)
    /\ Restored /\ pc = "sign_embed_public_jwk" => jwsc.ok /\ EmbeddedValidates(jwsc.val)
    /\ Restored /\ pc = "validate" => released.ok /\ released.val.payload = inner.payload

GenerateCycleWitness ==
    /\ Restored
    /\ pc = "validate"
    /\ released.ok
    /\ released.val.payload = <<0, 1, 2, 3, 4>>
    /\ get_jwk_pubkey(jwsc.val) = Some(public_key_as_jwk(signer, None).val)

\* C13: every signature that sign produces with an ES256 signer is exactly 64
\* octets: the big-endian r, left-padded with zeros to 32 octets, followed
\* by the big-endian s, left-padded with zeros to 32 octets, for every r and
\* s of 1 to 32 significant octets; the split of the 64 octets at offset 32
\* that validate makes recovers the same (r, s).
FixedForm(ec_sig, signature) ==
    /\ Len(ec_sig.r) \in 1..32
    /\ Len(ec_sig.s) \in 1..32
    /\ SubSeq(signature, 1, 32) = Fill(32 - Len(ec_sig.r), 0) \o ec_sig.r
    /\ SubSeq(signature, 33, 64) = Fill(32 - Len(ec_sig.s), 0) \o ec_sig.s
    /\ BnFromSlice(SubSeq(signature, 1, 32)) = ec_sig.r
    /\ BnFromSlice(SubSeq(signature, 33, 64)) = ec_sig.s

FixedWidthEs256 ==
    /\ pc = "sign" /\ signer.alg = "ES256" /\ jwsc.ok =>
          /\ Len(jwsc.val.signature) = 64
          /\ \E k \in Nonces :
                FixedForm(EcdsaSign(signer, Sha256(jwsc.val.sign_input), k), jwsc.val.signature)
          /\ Verified(jwsc.val, get_validator(signer))
    /\ \A n \in 1..32 :
          /\ Len(PadTo32(Fill(n, 255))) = 32
          /\ BnFromSlice(PadTo32(Fill(n, 255))) = Fill(n, 255)

FixedWidthWitness ==
    /\ pc = "sign"
    /\ signer.alg = "ES256"
    /\ jwsc.ok
    /\ jwsc.val.signature[1] = 0
    /\ jwsc.val.signature[2] # 0
    /\ jwsc.val.signature[33] # 0

\* C14: with an ES256 validator and alg = ES256, validate returns
\* InvalidSignature for every signature that is not exactly 64 octets long;
\* with an RS256 validator and alg = RS256 it returns InvalidSignature for
\* every signature shorter than 256 octets and hands every signature of 256
\* octets or more to the provider's verification; the rejection by length
\* does not depend on what the provider would say.
Validated == pc = "validate" /\ validator.alg = jwsc.val.header.alg

LengthPrechecks ==
    /\ Validated /\ validator.alg = "ES256" /\ Len(jwsc.val.signature) # 64 =>
          released = Err("InvalidSignature")
    /\ Validated /\ validator.alg = "RS256" /\ Len(jwsc.val.signature) < 256 =>
          released = Err("InvalidSignature")
    /\ Validated /\ validator.alg = "RS256" /\ Len(jwsc.val.signature) >= 256 =>
          released.ok = RsaVerify(validator, jwsc.val.sign_input, jwsc.val.signature)

\* A signature of 128 octets that the provider would accept under the
\* validator's 1024-bit key is rejected for its length.
LengthPrechecksWitness ==
    /\ Validated
    /\ validator.alg = "RS256"
    /\ Len(jwsc.val.signature) = 128
    /\ RsaVerify(validator, jwsc.val.sign_input, jwsc.val.signature)
    /\ released = Err("InvalidSignature")

\* C15 as claimed: for every string s that from_str accepts and whose header
\* segment is the base64url of the header struct's own JSON serialization,
\* from_str(s).to_string() equals s octet for octet.
Reserialized == pc = "to_string" /\ Count("from_str") = 1

\* The strings the token parsed may have been: the one received, or the
\* to_string of what sign returned.
Originals ==
    IF sent # <<>> THEN {Join(sent)}
    ELSE {to_string(sign(inner, signer, k).val) : k \in {n \in Nonces : sign(inner, signer, n).ok}}

HeaderIs(s, hdr) == Len(s) > Len(hdr) /\ SubSeq(s, 1, Len(hdr) + 1) = hdr \o <<DOT>>

OwnHeader == \A s \in Originals : HeaderIs(s, B64Encode(HeaderToJson(jwsc.val.header)))

ParseSerializeAsClaimed == Reserialized /\ OwnHeader => text \in Originals

\* C15, amended: ... and whose payload and signature segments carry no '='
\* padding, from_str(s).to_string() equals s octet for octet.
Unpadded(s) == \A i \in DOMAIN s : s[i] # PAD_BYTE

ParseSerialize ==
    Reserialized /\ OwnHeader /\ (\A s \in Originals : Unpadded(s)) => text \in Originals

ParseSerializeWitness ==
    /\ Reserialized
    /\ OwnHeader
    /\ sent # <<>>
    /\ Unpadded(Join(sent))
    /\ jwsc.val.header.crit = Some(<<>>)
    /\ text = Join(sent)

\* C16: for every JwsCompact c that from_str returned and that validates
\* under a validator v, from_str(c.to_string()) succeeds and the object it
\* returns validates under v as well, with the same payload.
ReserializedValidates ==
    pc = "from_str" /\ Count("from_str") = 2 /\ released.ok =>
        /\ jwsc.ok
        /\ validate(jwsc.val, validator).ok
        /\ validate(jwsc.val, validator).val.payload = released.val.payload

\* C17: whenever validate returns Ok, the JwsInner it returns carries the
\* protected header's kid, typ and cty and a payload equal to the
\* JwsCompact's payload, and nothing else of the protected header (alg, jku,
\* jwk, crit, x5c); validate leaves the JwsCompact unchanged.
Narrowed(c, inner_out) ==
    /\ DOMAIN inner_out = {"header", "payload"}
    /\ DOMAIN inner_out.header = {"kid", "typ", "cty"}
    /\ inner_out.header.kid = c.header.kid
    /\ inner_out.header.typ = c.header.typ
    /\ inner_out.header.cty = c.header.cty
    /\ inner_out.payload = c.payload

ValidationNarrowing ==
    [][pc' = "validate" /\ path' # path =>
          /\ jwsc' = jwsc
          /\ (released'.ok => Narrowed(jwsc.val, released'.val))]_vars

NarrowingWitness ==
    /\ pc = "validate"
    /\ released.ok
    /\ jwsc.val.header.typ = Some(<<74, 87, 84>>)
    /\ released.val.header.typ = Some(<<74, 87, 84>>)
    /\ released.val.payload = jwsc.val.payload

SameButNonce(again, first, alg) ==
    /\ again.ok = first.ok
    /\ first.ok =>
          /\ again.val.header = first.val.header
          /\ again.val.payload = first.val.payload
          /\ again.val.sign_input = first.val.sign_input
          /\ alg # "ES256" => again.val.signature = first.val.signature

JwkWidths ==
    jwk # NoResult /\ signer.alg \in {"ES256", "RS256"} =>
        /\ jwk.ok
        /\ jwk.val.alg = Some(signer.alg)
        /\ jwk.val.use = Some("sig")
        /\ jwk.val.kid \in JwkKids
        /\ IF signer.alg = "ES256"
           THEN jwk.val.kty = "EC" /\ Len(jwk.val.x) = 32 /\ Len(jwk.val.y) = 32
           ELSE jwk.val.kty = "RSA" /\ Len(jwk.val.n) = RSA_SIG_SIZE /\ Len(jwk.val.e) = 3

\* C20: the checks of from_str run in a fixed order and the first failure is
\* the one reported: the base64 of the header segment (InvalidBase64), the
\* header's JSON (InvalidHeaderFormat), a non-empty crit (CriticalExtension),
\* a missing payload or signature segment (InvalidCompactFormat), the base64
\* of the payload (InvalidBase64), the base64 of the signature
\* (InvalidBase64); a non-empty crit is therefore reported before any count
\* of segments and before the payload or the signature is decoded, and no
\* JwsCompact is returned when a check fails.
FirstFailure(segs) ==
    IF segs[1] \in BadB64Segs THEN "InvalidBase64"
    ELSE IF segs[1] \in BadJsonSegs THEN "InvalidHeaderFormat"
    ELSE IF segs[1] \in CritSegs THEN "CriticalExtension"
    ELSE IF Len(segs) < 3 THEN "InvalidCompactFormat"
    ELSE IF segs[2] \in BadB64Segs THEN "InvalidBase64"
    ELSE IF Len(segs) > 3 \/ segs[3] \in BadB64Segs THEN "InvalidBase64"
    ELSE ""

ErrorPrecedence ==
    ReceivedParsed =>
        IF FirstFailure(sent) = "" THEN jwsc.ok ELSE jwsc = Err(FirstFailure(sent))

\* A header with a non-empty crit and no further segment: CriticalExtension,
\* not InvalidCompactFormat.
ErrorPrecedenceWitness ==
    /\ ReceivedParsed
    /\ Len(sent) = 1
    /\ sent[1] \in CritSegs
    /\ jwsc = Err("CriticalExtension")

\* C21: get_x5c_pubkey returns Ok(None) if and only if the header has no
\* x5c; if x5c is present but an empty list it returns InvalidHeaderFormat;
\* otherwise it returns Ok(Some(first certificate)) only when the provider's
\* verification result for the first certificate against the remaining ones
\* is OK, and X5cPublicKeyDenied for every other result; it never returns a
\* certificate other than the first element of x5c.
X5cAsked == pc = "get_x5c_pubkey"

X5cOutcome(x5c, result) ==
    /\ result = Ok(None) <=> x5c = None
    /\ x5c = Some(<<>>) => result = Err("InvalidHeaderFormat")
    /\ x5c \notin {None, Some(<<>>)} =>
          IF VerifyCert(Head(Unwrap(x5c)), Tail(Unwrap(x5c))) = "OK"
          THEN result = Ok(Some(Head(Unwrap(x5c))))
          ELSE result = Err("X5cPublicKeyDenied")
    /\ result.ok /\ result.val # None => x5c # None /\ Unwrap(result.val) = Unwrap(x5c)[1]

X5cOutcomes == X5cAsked => X5cOutcome(jwsc.val.header.x5c, pubkey)

\* A chain whose first certificate the provider refuses and whose second it
\* would accept: denied.
X5cWitness ==
    /\ X5cAsked
    /\ IsSome(jwsc.val.header.x5c)
    /\ Len(Unwrap(jwsc.val.header.x5c)) = 2
    /\ VerifyCert(Unwrap(jwsc.val.header.x5c)[2], <<>>) = "OK"
    /\ pubkey = Err("X5cPublicKeyDenied")

\* C23, as claimed: JwsValidator::try_from(&Jwk) yields an ES256 validator
\* for every EC JWK and an RS256 validator for every RSA JWK, whatever the
\* JWK's alg, use and kid, and never an HS256 validator; a token with
\* alg=HS256 validated with a JWK-derived validator fails with
\* ValidatorAlgMismatch.
JwkTried == built # NoResult

Unlabelled(value) == [value EXCEPT !.alg = None, !.use = None, !.kid = None]

LabelsIgnored == built = try_from_jwk(Unlabelled(jwk.val))

NoHmacFromJwk ==
    /\ built.ok => built.val.alg # "HS256"
    /\ pc = "validate" /\ jwsc.val.header.alg = "HS256" =>
          released = Err("ValidatorAlgMismatch")

FamilyByKtyAsClaimed ==
    JwkTried =>
        /\ jwk.val.kty = "EC" => built.ok /\ built.val.alg = "ES256"
        /\ jwk.val.kty = "RSA" => built.ok /\ built.val.alg = "RS256"
        /\ LabelsIgnored
        /\ NoHmacFromJwk

\* (x, y) is the public point of a P-256 key.
OnP256(value) ==
    \E id \in KeyIds :
        /\ BnFromSlice(value.x) = EcAffine([key |-> id, size |-> 32]).x
        /\ BnFromSlice(value.y) = EcAffine([key |-> id, size |-> 32]).y

\* C23, amended: try_from yields an ES256 validator for every EC JWK whose
\* (x, y) the provider accepts as a point of P-256 and fails with
\* OpenSSLError for every other EC JWK; it yields an RS256 validator for
\* every RSA JWK; the JWK's alg, use and kid change nothing; it never yields
\* an HS256 validator, and a token with alg=HS256 validated with a
\* JWK-derived validator fails with ValidatorAlgMismatch.
FamilyByKty ==
    JwkTried =>
        /\ jwk.val.kty = "EC" /\ OnP256(jwk.val) => built.ok /\ built.val.alg = "ES256"
        /\ jwk.val.kty = "EC" /\ ~OnP256(jwk.val) => built = Err("OpenSSLError")
        /\ jwk.val.kty = "RSA" => built.ok /\ built.val.alg = "RS256"
        /\ LabelsIgnored
        /\ NoHmacFromJwk

\* A token with alg=HS256, made with an HMAC key, meets a validator built
\* from an EC JWK that calls itself an HS256 key.
FamilyByKtyWitness ==
    /\ JwkTried
    /\ pc = "validate"
    /\ jwk.val.kty = "EC"
    /\ jwk.val.alg = Some("HS256")
    /\ jwsc.val.header.alg = "HS256"
    /\ signer.alg = "HS256"
    /\ released = Err("ValidatorAlgMismatch")

\* C22: for every JwsCompact constructed by sign_inner or by from_str,
\* sign_input has the form H.P where H and P contain no '.', the stored
\* payload is exactly the base64url decoding of P and the stored header is
\* the JSON decoding of the base64url decoding of H; so the payload and the
\* kid/typ/cty released by a successful validate are the ones covered by the
\* verified signature.
CoveredBy(pieces, c) ==
    /\ Len(pieces) = 2
    /\ B64Valid(pieces[2])
    /\ c.payload = B64Decode(pieces[2])
    /\ B64Valid(pieces[1])
    /\ JsonToHeader(B64Decode(pieces[1])).ok
    /\ c.header = JsonToHeader(B64Decode(pieces[1])).val

ReleasedFrom(pieces, r) ==
    /\ r.payload = B64Decode(pieces[2])
    /\ r.header.kid = JsonToHeader(B64Decode(pieces[1])).val.kid
    /\ r.header.typ = JsonToHeader(B64Decode(pieces[1])).val.typ
    /\ r.header.cty = JsonToHeader(B64Decode(pieces[1])).val.cty

AuthenticatedPayload ==
    /\ jwsc.ok => CoveredBy(SplitN(jwsc.val.sign_input, 3), jwsc.val)
    /\ pc = "validate" /\ released.ok =>
          /\ ReleasedFrom(SplitN(jwsc.val.sign_input, 3), released.val)
          /\ validator.alg = "ES256" =>
                EcdsaVerify(validator, Sha256(jwsc.val.sign_input),
                            [r |-> BnFromSlice(SubSeq(jwsc.val.signature, 1, 32)),
                             s |-> BnFromSlice(SubSeq(jwsc.val.signature, 33, 64))])
          /\ validator.alg = "RS256" =>
                RsaVerify(validator, jwsc.val.sign_input, jwsc.val.signature)
          /\ validator.alg = "HS256" =>
                jwsc.val.signature = HmacSign(validator, jwsc.val.sign_input)

\* A token with kid and an embedded key was signed, serialized, parsed and
\* validated, and its payload was released.
AuthenticatedPayloadWitness ==
    /\ pc = "validate"
    /\ Count("from_str") = 1
    /\ released.ok
    /\ IsSome(jwsc.val.header.jwk)
    /\ IsSome(released.val.header.kid)
    /\ Len(released.val.payload) > 0

====
